---- MODULE Spec2Model ----
(***************************************************************************)
(* A model of the HarnessSync synchronization engine                       *)
(* (src/plugins/HarnessSync/src): the state store with its atomic save and *)
(* schema migration, the advisory lock, the backup/rollback context, the   *)
(* adapter contract and the orchestrator pipeline.                         *)
(*                                                                         *)
(* Each component has its own specification over the shared variables:     *)
(*   SpecSave    StateManager._save, statement by statement, with failures *)
(*   SpecState   StateManager construction (_load) and record_sync         *)
(*   SpecLock    processes entering the block guarded by sync_lock         *)
(*   SpecBackup  BackupContext / BackupManager.rollback                    *)
(*   SpecAdapter AdapterBase.sync_all, category by category                *)
(*   SpecRun     SyncOrchestrator.__init__ and sync_all, stage by stage    *)
(* A specification leaves the variables of the other components at their   *)
(* initial values.                                                         *)
(***************************************************************************)
EXTENDS Integers, Sequences, FiniteSets, TLC

VARIABLES
    \* ---- the state directory (~/.harnesssync) ----
    stateFile,      \* state.json: [exists, complete, doc]
    bakCount,       \* number of state.json.bak.<timestamp> files
    clock,          \* datetime.now(), a logical clock
    \* ---- StateManager._save in progress ----
    svPc,           \* position inside _save
    svState,        \* self._state being written
    svOld,          \* state.json as it was when _save was entered
    tmpFile,        \* the NamedTemporaryFile: [exists, complete, doc]
    svBuf,          \* TRUE while written data sits in the file object's buffer
    svClosed,       \* temp_fd.closed
    svCount,        \* number of _save calls made
    \* ---- StateManager instances ----
    mgr,            \* per process: [loaded, state]
    lastLoad,       \* the latest construction: [valid, before, state, after]
    v1Seen,         \* history: the version-1 document a construction loaded
    opCount,        \* number of state operations made
    \* ---- sync_lock ----
    platform,       \* sys.platform: "posix" or "win32"
    lockHolders,    \* processes whose descriptor holds the flock on sync.lock
    lkPc,           \* per process: position around the guarded block
    lkSteps,        \* per process: pipeline steps made in this attempt
    lkFoundHeld,    \* per process: the lock was held by another at its attempt
    lkAttempts,     \* per process: number of attempts made
    \* ---- BackupManager / BackupContext ----
    bkFiles,        \* original path -> content (0: the path does not exist)
    bkStore,        \* backup directory -> content backed up in it
    bkSecond,       \* datetime.now() to the second, as used in backup names
    bkEntries,      \* BackupContext._backups: sequence of <<backup, original>>
    bkPc,           \* "open", "rollback", "propagated", "exited"
    bkTodo,         \* rollback: the entries still to process
    bkLog,          \* history: the entries rollback processed, with outcome
    bkAtExit,       \* history: bkFiles when the context was left
    \* ---- AdapterBase.sync_all in progress ----
    adBeh,          \* the adapter: operation -> [raises, result]
    adScoped,       \* source_data['mcp_scoped'] is non-empty
    adIdx,          \* index of the next category
    adResults,      \* results: category -> SyncResult
    adCalls,        \* history: the operations sync_all has invoked
    adEscaped,      \* an exception has left sync_all
    \* ---- a run of SyncOrchestrator ----
    rnCfg,          \* [dry_run, allow_secrets, account]
    rnRegistry,     \* AdapterRegistry._adapters: target -> kind of adapter
    rnServers,      \* the discovered MCP servers, with scope metadata
    rnSrc,          \* source path -> content (0: the file does not exist)
    rnPc,           \* the stage the run is at
    rnMem,          \* state_manager._state
    rnDetections,   \* the result of the secret scan
    rnConflicts,    \* conflicts: target -> list of conflicts
    rnBackupMgr,    \* backup_manager is not None
    rnResults,      \* results
    rnIdx,          \* index of the next target of the adapter loop
    rnTargetFiles,  \* target -> number of times its files were written
    rnBackups,      \* target -> number of backup directories kept
    rnLog,          \* history: the events of the run
    rnAtNew,        \* history: Snapshot when the run began
    rnAtCall,       \* history: Snapshot when sync_all was called
    \* ---- a function applied to drawn arguments ----
    fnIn,           \* the arguments
    fnOut,          \* [done, ...]: the results, once the function was applied
    \* ---- what the record calls have recorded ----
    recorded,       \* history: [targets, plugins, writers, failed]
    \* ---- runs in succession ----
    rnPrev,         \* history: [runs, edited, changed, state, pending, hand]
    \* ---- the protocol server (mcp/server.py) ----
    srvQueue,       \* sync_queue: the requests put and not yet got
    srvFlag,        \* sync_in_progress
    srvWorker,      \* the worker thread: [pc, req]
    srvMain,        \* the main thread: [pc, req]
    srvLog          \* history: request -> [tool, others, outcome, executed, answered]

stateVars == <<stateFile, bakCount, clock>>
saveVars  == <<svPc, svState, svOld, tmpFile, svBuf, svClosed, svCount>>
mgrVars   == <<mgr, lastLoad, v1Seen, opCount>>
lockVars  == <<platform, lockHolders, lkPc, lkSteps, lkFoundHeld, lkAttempts>>
backupVars == <<bkFiles, bkStore, bkSecond, bkEntries, bkPc, bkTodo, bkLog, bkAtExit>>
adapterVars == <<adBeh, adScoped, adIdx, adResults, adCalls, adEscaped>>
runEnv == <<rnCfg, rnRegistry, rnServers, rnSrc>>
runVars == <<runEnv, rnPc, rnMem, rnDetections, rnConflicts, rnBackupMgr,
             rnResults, rnIdx, rnTargetFiles, rnBackups, rnLog, rnAtNew, rnAtCall>>
pureVars == <<fnIn, fnOut>>
recVars == <<recorded>>
twiceVars == <<rnPrev>>
serverVars == <<srvQueue, srvFlag, srvWorker, srvMain, srvLog>>
histVars == <<recVars, twiceVars, serverVars>>
extraVars == <<pureVars, histVars>>
vars == <<stateVars, saveVars, mgrVars, lockVars, backupVars, adapterVars, runVars,
          extraVars>>

(***************************************************************************)
(* Bounds of the model.                                                    *)
(***************************************************************************)
MaxSaves == 2
MaxOps   == 3
MaxAttempts == 2
PipelineSteps == 2
MaxEntries == 3
MaxContent == 2
MaxSecond == 1

(***************************************************************************)
(* Dictionaries.  A JSON object / Python dict is a function whose domain   *)
(* is its key set.                                                         *)
(***************************************************************************)
EmptyMap == [k \in {} |-> 0]

Has(d, k) == k \in DOMAIN d

\* dict.get(k, default)
Get(d, k, default) == IF k \in DOMAIN d THEN d[k] ELSE default

\* d[k] = v
Put(d, k, v) == (k :> v) @@ d

\* d.setdefault(k, v)
SetDefault(d, k, v) == IF k \in DOMAIN d THEN d ELSE Put(d, k, v)

\* None, for a timestamp
None == 0

Targets  == {"codex", "gemini", "opencode"}
Paths    == {"CLAUDE.md", ".mcp.json"}
Procs    == {"p1", "p2"}

\* account=None
NoAccount == "<none>"

(***************************************************************************)
(* Files of the state directory.                                           *)
(***************************************************************************)
MissingFile == [exists |-> FALSE, complete |-> FALSE, doc |-> EmptyMap]

\* A file holding the whole JSON text of doc d.
CompleteFile(d) == [exists |-> TRUE, complete |-> TRUE, doc |-> d]

\* A file holding a proper prefix of the JSON text of doc d.
PartialFile(d) == [exists |-> TRUE, complete |-> FALSE, doc |-> d]

\* utils.paths.read_json_safe(path, default={}): the parsed document, or
\* the default for a missing file or one that does not parse.
ReadJsonSafe(f) == IF f.exists /\ f.complete THEN f.doc ELSE EmptyMap

(***************************************************************************)
(* State documents.                                                        *)
(***************************************************************************)
FreshState == [version |-> 2, targets |-> EmptyMap, accounts |-> EmptyMap]

TargetState(now, status, hashes, synced, skipped, failed) ==
    [last_sync |-> now, status |-> status, scope |-> "all",
     file_hashes |-> hashes, sync_method |-> EmptyMap,
     items_synced |-> synced, items_skipped |-> skipped,
     items_failed |-> failed]

\* Digests (utils.hashing): content c of a file hashes to 100 + c; a
\* missing file hashes to the empty string, modelled as 0.
NoHash == 0
HashBase == 100
HashOf(c) == IF c = 0 THEN NoHash ELSE HashBase + c

OldTarget == TargetState(1, "success", ("CLAUDE.md" :> HashOf(1)), 1, 0, 0)

\* Documents an existing state.json may hold when the program starts.
LegacyDoc      == ("last_sync" :> 1) @@ ("codex" :> 1)
V1Doc          == [version |-> 1, last_sync |-> 1,
                   targets |-> ("codex" :> OldTarget)]
V1TwoDoc       == [version |-> 1, last_sync |-> 1,
                   targets |-> ("codex" :> OldTarget) @@ ("gemini" :> OldTarget)]
V1EmptyDoc     == [version |-> 1, last_sync |-> 1, targets |-> EmptyMap]
V1NoTargetsDoc == [version |-> 1]
V1AccountsDoc  == [version |-> 1, last_sync |-> 1,
                   targets |-> ("codex" :> OldTarget),
                   accounts |-> EmptyMap]
V2Doc          == [version |-> 2, last_sync |-> 1,
                   targets |-> ("codex" :> OldTarget),
                   accounts |-> ("work" :> [last_sync |-> 1,
                                           targets |-> ("gemini" :> OldTarget)])]

InitialDocs == {LegacyDoc, V1Doc, V1TwoDoc, V1EmptyDoc, V1NoTargetsDoc,
                V1AccountsDoc, V2Doc, FreshState}

InitialFiles == {MissingFile, PartialFile(V2Doc), CompleteFile(EmptyMap)}
                    \cup {CompleteFile(d) : d \in InitialDocs}

(***************************************************************************)
(* StateManager._save (state_manager.py 142-186), one action per           *)
(* statement.  Every statement may raise; the except block closes the file *)
(* object if it is open, unlinks the temporary file and re-raises.         *)
(* Closing a file object flushes its buffer first: when data is still      *)
(* buffered (the write or the flush failed, e.g. disk full) that flush may *)
(* fail again, close() raises inside the except block, and the unlink      *)
(* below it is not reached.                                                *)
(***************************************************************************)
SavePcs == {"idle", "opened", "dumped", "flushed", "synced", "closed",
            "done", "raised", "crashed"}

\* The except block of _save (lines 180-186).  buffered: data is still in
\* the file object's buffer; closeFails: the flush that temp_fd.close()
\* then makes fails, so close() raises and the unlink is not reached.
SaveExcept(buffered, closeFails) ==
    /\ svPc' = "raised"
    /\ svClosed' = TRUE
    /\ svBuf' = FALSE
    /\ tmpFile' = IF ~svClosed /\ buffered /\ closeFails
                  THEN tmpFile
                  ELSE MissingFile
    /\ UNCHANGED <<stateFile, svState, svOld, svCount>>

\* tempfile.NamedTemporaryFile(mode='w', dir=state_dir, delete=False)
SaveOpen(d) ==
    /\ svPc = "idle"
    /\ svCount < MaxSaves
    /\ svState' = d
    /\ svOld' = stateFile
    /\ svCount' = svCount + 1
    /\ \/ /\ svPc' = "opened"
          /\ tmpFile' = PartialFile(d)
          /\ svClosed' = FALSE
          /\ svBuf' = FALSE
       \/ \* the file cannot be created: temp_fd and temp_path stay None
          /\ svPc' = "raised"
          /\ tmpFile' = MissingFile
          /\ svClosed' = TRUE
          /\ svBuf' = FALSE
    /\ UNCHANGED stateFile

\* json.dump(self._state, temp_fd, ...); temp_fd.write('\n')
SaveDump ==
    /\ svPc = "opened"
    /\ \/ /\ svPc' = "dumped"
          /\ svBuf' = TRUE
          /\ UNCHANGED <<stateFile, svState, svOld, tmpFile, svClosed, svCount>>
       \/ \* the document is not serializable: nothing is buffered yet
          SaveExcept(FALSE, FALSE)
       \/ \* a write-through of the full buffer fails: data stays buffered
          \E closeFails \in BOOLEAN : SaveExcept(TRUE, closeFails)

\* temp_fd.flush()
SaveFlush ==
    /\ svPc = "dumped"
    /\ \/ /\ svPc' = "flushed"
          /\ svBuf' = FALSE
          /\ tmpFile' = CompleteFile(svState)
          /\ UNCHANGED <<stateFile, svState, svOld, svClosed, svCount>>
       \/ \E closeFails \in BOOLEAN : SaveExcept(svBuf, closeFails)

\* os.fsync(temp_fd.fileno())
SaveFsync ==
    /\ svPc = "flushed"
    /\ \/ /\ svPc' = "synced"
          /\ UNCHANGED <<stateFile, svState, svOld, tmpFile, svBuf, svClosed, svCount>>
       \/ SaveExcept(svBuf, FALSE)

\* temp_fd.close()
SaveClose ==
    /\ svPc = "synced"
    /\ svPc' = "closed"
    /\ svClosed' = TRUE
    /\ UNCHANGED <<stateFile, svState, svOld, tmpFile, svBuf, svCount>>

\* os.replace(temp_path, state_file_path)
SaveReplace ==
    /\ svPc = "closed"
    /\ \/ /\ svPc' = "done"
          /\ stateFile' = tmpFile
          /\ tmpFile' = MissingFile
          /\ UNCHANGED <<svState, svOld, svBuf, svClosed, svCount>>
       \/ SaveExcept(svBuf, FALSE)

\* The process is killed inside _save.
SaveCrash ==
    /\ svPc \in {"opened", "dumped", "flushed", "synced", "closed"}
    /\ svPc' = "crashed"
    /\ UNCHANGED <<stateFile, svState, svOld, tmpFile, svBuf, svClosed, svCount>>

\* _save has returned or raised; the next call starts with a new temporary file.
SaveReturn ==
    /\ svPc \in {"done", "raised", "crashed"}
    /\ svPc' = "idle"
    /\ tmpFile' = MissingFile
    /\ svBuf' = FALSE
    /\ svClosed' = TRUE
    /\ UNCHANGED <<stateFile, svState, svOld, svCount>>

(***************************************************************************)
(* _save as one step, for the callers of _save: the document replaces      *)
(* state.json, or _save raises and state.json is as it was.                *)
(***************************************************************************)
SaveResult(file, state, saveFails) ==
    IF saveFails THEN file ELSE CompleteFile(state)

(***************************************************************************)
(* StateManager._load (state_manager.py 73-140), called by __init__.       *)
(* Returns the in-memory state, the state file and the number of backup    *)
(* files after the call, and whether the call raised.                      *)
(***************************************************************************)
IsV1ToMigrate(state) ==
    /\ Get(state, "version", 0) = 1
    /\ ~Has(state, "accounts")

\* The accounts key guard dropped: a mutant that migrates nothing.
MigrateV1Nothing(state) == SetDefault(state, "accounts", EmptyMap)

\* Lines 116-130: wrap the flat targets in the 'default' account.
MigrateV1(state) ==
    LET v1_targets == Get(state, "targets", EmptyMap)
        withAccounts ==
            IF DOMAIN v1_targets # {}
            THEN Put(state, "accounts",
                     ("default" :> [last_sync |-> Get(state, "last_sync", None),
                                    targets |-> v1_targets]))
            ELSE Put(state, "accounts", EmptyMap)
    IN  Put(withAccounts, "version", 2)

LoadResult(file, baks, renameFails, saveFails) ==
    IF ~file.exists
    THEN [state |-> FreshState, file |-> file, baks |-> baks, raised |-> FALSE]
    ELSE LET state == ReadJsonSafe(file) IN
         IF DOMAIN state = {}
         THEN \* corrupted (or empty) document: rename it to state.json.bak.<ts>
              [state |-> FreshState,
               file |-> IF renameFails THEN file ELSE MissingFile,
               baks |-> IF renameFails THEN baks ELSE baks + 1,
               raised |-> FALSE]
         ELSE IF ~Has(state, "version")
         THEN \* legacy cc2all state, wrapped and not persisted
              [state |-> [version |-> 2, targets |-> EmptyMap,
                          accounts |-> EmptyMap, migrated_from |-> state],
               file |-> file, baks |-> baks, raised |-> FALSE]
         ELSE IF IsV1ToMigrate(state)
         THEN LET migrated == MigrateV1(state) IN
              [state |-> migrated,
               file |-> SaveResult(file, migrated, saveFails),
               baks |-> baks,
               raised |-> saveFails]
         ELSE [state |-> SetDefault(state, "accounts", EmptyMap),
               file |-> file, baks |-> baks, raised |-> FALSE]

\* StateManager.__init__ in process p
Construct(p) ==
    /\ opCount < MaxOps
    /\ \E renameFails \in BOOLEAN, saveFails \in BOOLEAN :
          LET r == LoadResult(stateFile, bakCount, renameFails, saveFails) IN
          /\ stateFile' = r.file
          /\ bakCount' = r.baks
          /\ mgr' = [mgr EXCEPT ![p] =
                        IF r.raised THEN [loaded |-> FALSE, state |-> FreshState]
                        ELSE [loaded |-> TRUE, state |-> r.state]]
          /\ lastLoad' = [valid |-> ~r.raised, before |-> stateFile,
                          state |-> r.state, after |-> r.file]
          /\ v1Seen' = IF ~r.raised /\ ~v1Seen.seen
                          /\ Get(ReadJsonSafe(stateFile), "version", 0) = 1
                       THEN [seen |-> TRUE, doc |-> ReadJsonSafe(stateFile)]
                       ELSE v1Seen
    /\ opCount' = opCount + 1
    /\ UNCHANGED clock

(***************************************************************************)
(* StateManager.record_sync (state_manager.py 188-252)                     *)
(***************************************************************************)
\* Lines 212-218
RecordStatus(synced, skipped, failed) ==
    IF failed = 0 THEN "success"
    ELSE IF synced > 0 /\ failed > 0 THEN "partial"
    ELSE "failed"

\* Lines 220-249: the state after the assignments, before _save.
RecordSyncState(state, now, target, hashes, synced, skipped, failed, account) ==
    LET target_data == TargetState(now, RecordStatus(synced, skipped, failed),
                                   hashes, synced, skipped, failed)
        withTarget ==
            IF account # NoAccount
            THEN LET accounts == Get(state, "accounts", EmptyMap)
                     acc0 == Get(accounts, account, [targets |-> EmptyMap])
                     acc1 == SetDefault(acc0, "targets", EmptyMap)
                     acc2 == Put(acc1, "targets", Put(acc1.targets, target, target_data))
                     acc3 == Put(acc2, "last_sync", now)
                 IN  Put(state, "accounts", Put(accounts, account, acc3))
            ELSE Put(state, "targets",
                     Put(Get(state, "targets", EmptyMap), target, target_data))
    IN  Put(withTarget, "last_sync", now)

\* The inputs of record_sync drawn by the model.
HashMaps == { ("CLAUDE.md" :> HashOf(1)),
              ("CLAUDE.md" :> HashOf(2)) @@ (".mcp.json" :> HashOf(1)) }
CountCases == { <<0, 0, 0>>, <<2, 1, 0>>, <<1, 0, 1>>, <<0, 1, 2>> }
SyncAccounts == {NoAccount, "work"}
SyncTargets == {"codex", "gemini"}

RecordSync(p, target, hashes, counts, account) ==
    /\ opCount < MaxOps
    /\ mgr[p].loaded
    /\ \E saveFails \in BOOLEAN :
          LET new == RecordSyncState(mgr[p].state, clock, target, hashes,
                                     counts[1], counts[2], counts[3], account) IN
          /\ mgr' = [mgr EXCEPT ![p].state = new]
          /\ stateFile' = SaveResult(stateFile, new, saveFails)
    /\ clock' = clock + 1
    /\ opCount' = opCount + 1
    /\ UNCHANGED <<bakCount, lastLoad, v1Seen>>

(***************************************************************************)
(* sync_lock (lock.py 20-60) and the guarded block of its callers          *)
(* (commands/sync.py 130-193, hooks/post_tool_use.py 72-86).               *)
(***************************************************************************)
\* A mutant of the flock call: LOCK_NB without LOCK_EX, granted to anyone.
FlockAlwaysGranted(holders) == TRUE

\* fcntl.flock(fd, LOCK_EX | LOCK_NB) succeeds when no other open file
\* description holds the lock; otherwise it raises BlockingIOError at once.
FlockGranted(holders) == holders = {}

\* with sync_lock(LOCK_FILE_DEFAULT): entering
LockEnter(p) ==
    /\ lkPc[p] = "start"
    /\ lkAttempts[p] < MaxAttempts
    /\ lkAttempts' = [lkAttempts EXCEPT ![p] = @ + 1]
    /\ lkSteps' = [lkSteps EXCEPT ![p] = 0]
    /\ lkFoundHeld' = [lkFoundHeld EXCEPT ![p] = lockHolders # {}]
    /\ IF platform = "win32"
       THEN \* no locking: warn and yield None
            /\ lkPc' = [lkPc EXCEPT ![p] = "inside"]
            /\ UNCHANGED lockHolders
       ELSE IF FlockGranted(lockHolders)
       THEN /\ lkPc' = [lkPc EXCEPT ![p] = "inside"]
            /\ lockHolders' = lockHolders \cup {p}
       ELSE \* BlockingIOError: os.close(fd); raise
            /\ lkPc' = [lkPc EXCEPT ![p] = "refused"]
            /\ UNCHANGED lockHolders
    /\ UNCHANGED platform

\* One stage of the pipeline run inside the guarded block.
LockedStep(p) ==
    /\ lkPc[p] = "inside"
    /\ lkSteps[p] < PipelineSteps
    /\ lkSteps' = [lkSteps EXCEPT ![p] = @ + 1]
    /\ UNCHANGED <<platform, lockHolders, lkPc, lkFoundHeld, lkAttempts>>

\* A mutant of sync_lock without its finally clause: the descriptor stays
\* open and locked when the block is left.
LockExitKeepsLock(p) ==
    /\ lkPc[p] = "inside"
    /\ lkPc' = [lkPc EXCEPT ![p] = "left"]
    /\ UNCHANGED <<platform, lockHolders, lkSteps, lkFoundHeld, lkAttempts>>

\* Leaving the block, by return or by an exception of the pipeline:
\* finally: flock(fd, LOCK_UN); os.close(fd)
LockExit(p) ==
    /\ lkPc[p] = "inside"
    /\ lkPc' = [lkPc EXCEPT ![p] = "left"]
    /\ lockHolders' = lockHolders \ {p}
    /\ UNCHANGED <<platform, lkSteps, lkFoundHeld, lkAttempts>>

\* The entry point is invoked again (a next command or hook event).
LockAgain(p) ==
    /\ lkPc[p] \in {"left", "refused"}
    /\ lkAttempts[p] < MaxAttempts
    /\ lkPc' = [lkPc EXCEPT ![p] = "start"]
    /\ UNCHANGED <<platform, lockHolders, lkSteps, lkFoundHeld, lkAttempts>>

LockProcs == {"p1", "p2", "p3"}

LockParked ==
    /\ platform = "posix"
    /\ lockHolders = {}
    /\ lkPc = [p \in LockProcs |-> "start"]
    /\ lkSteps = [p \in LockProcs |-> 0]
    /\ lkFoundHeld = [p \in LockProcs |-> FALSE]
    /\ lkAttempts = [p \in LockProcs |-> 0]

(***************************************************************************)
(* BackupManager.backup_target / rollback and BackupContext                *)
(* (backup_manager.py 44-125, 164-214).                                    *)
(***************************************************************************)
Originals == {"AGENTS.md", "GEMINI.md"}

\* backup_root/{target}/{name}_{timestamp}: one directory per original and second
BackupDir(original, second) == <<original, second>>

Reverse(seq) == [i \in 1..Len(seq) |-> seq[Len(seq) + 1 - i]]

\* A mutant of rollback: the entries are processed in registration order.
RollbackOrderForward(backups) == backups

\* Line 97: for backup_path, original_path in reversed(backups)
RollbackOrder(backups) == Reverse(backups)

\* backup_path = bm.backup_target(original, ...); ctx.register(backup_path, original)
\* A second backup of the same file in the same second lands in the same
\* directory and overwrites the first copy.  Backing up a path that does not
\* exist raises, which leaves the context by exception.
BackupAndRegister(o) ==
    /\ bkPc = "open"
    /\ Len(bkEntries) < MaxEntries
    /\ IF bkFiles[o] = 0
       THEN /\ bkPc' = "rollback"
            /\ bkTodo' = RollbackOrder(bkEntries)
            /\ bkAtExit' = bkFiles
            /\ UNCHANGED <<bkFiles, bkStore, bkSecond, bkEntries, bkLog>>
       ELSE /\ bkStore' = (BackupDir(o, bkSecond) :> bkFiles[o]) @@ bkStore
            /\ bkEntries' = Append(bkEntries, <<BackupDir(o, bkSecond), o>>)
            /\ UNCHANGED <<bkFiles, bkSecond, bkPc, bkTodo, bkLog, bkAtExit>>

\* The wall clock reaches the next second.
BackupTick ==
    /\ bkPc = "open"
    /\ bkSecond < MaxSecond
    /\ bkSecond' = bkSecond + 1
    /\ UNCHANGED <<bkFiles, bkStore, bkEntries, bkPc, bkTodo, bkLog, bkAtExit>>

\* The sync operation inside the context writes (or creates) an original.
SyncWrite(o, c) ==
    /\ bkPc = "open"
    /\ c # bkFiles[o]
    /\ bkFiles' = [bkFiles EXCEPT ![o] = c]
    /\ UNCHANGED <<bkStore, bkSecond, bkEntries, bkPc, bkTodo, bkLog, bkAtExit>>

\* __exit__ with exc_type = None: nothing is rolled back.
ContextExitNormal ==
    /\ bkPc = "open"
    /\ bkPc' = "exited"
    /\ bkAtExit' = bkFiles
    /\ UNCHANGED <<bkFiles, bkStore, bkSecond, bkEntries, bkTodo, bkLog>>

\* The sync operation raises: __exit__ calls rollback(self._backups).
ContextExitException ==
    /\ bkPc = "open"
    /\ bkPc' = "rollback"
    /\ bkTodo' = RollbackOrder(bkEntries)
    /\ bkAtExit' = bkFiles
    /\ UNCHANGED <<bkFiles, bkStore, bkSecond, bkEntries, bkLog>>

\* One iteration of the loop of rollback (lines 97-125): the original is
\* removed, then restored from the backup; when the backup content is
\* missing or the copy fails, the error is logged and the loop goes on.
RollbackEntry(restoreFails) ==
    /\ bkPc = "rollback"
    /\ bkTodo # << >>
    /\ LET entry == Head(bkTodo)
           backup == entry[1]
           original == entry[2]
       IN  /\ bkFiles' = [bkFiles EXCEPT ![original] =
                             IF restoreFails THEN 0 ELSE bkStore[backup]]
           /\ bkLog' = Append(bkLog, [entry |-> entry, restored |-> ~restoreFails])
    /\ bkTodo' = Tail(bkTodo)
    /\ UNCHANGED <<bkStore, bkSecond, bkEntries, bkPc, bkAtExit>>

\* rollback has returned; __exit__ returns False and the exception propagates.
RollbackDone ==
    /\ bkPc = "rollback"
    /\ bkTodo = << >>
    /\ bkPc' = "propagated"
    /\ UNCHANGED <<bkFiles, bkStore, bkSecond, bkEntries, bkTodo, bkLog, bkAtExit>>

BackupParked ==
    /\ bkFiles = [o \in Originals |-> 1]
    /\ bkStore = EmptyMap
    /\ bkSecond = 0
    /\ bkEntries = << >>
    /\ bkPc = "open"
    /\ bkTodo = << >>
    /\ bkLog = << >>
    /\ bkAtExit = [o \in Originals |-> 1]

(***************************************************************************)
(* SyncResult (adapters/result.py) and AdapterBase.sync_all                *)
(* (adapters/base.py 145-218).                                             *)
(***************************************************************************)
SyncResult(synced, skipped, failed, adapted, failed_files) ==
    [synced |-> synced, skipped |-> skipped, failed |-> failed,
     adapted |-> adapted, synced_files |-> << >>, skipped_files |-> << >>,
     failed_files |-> failed_files]

Categories == <<"rules", "skills", "agents", "commands", "mcp", "settings">>

Operations == {"sync_rules", "sync_skills", "sync_agents", "sync_commands",
               "sync_mcp", "sync_mcp_scoped", "sync_settings"}

\* The operation sync_all invokes for a category (lines 196-202 for mcp).
CategoryOp(cat, scoped) ==
    CASE cat = "rules"    -> "sync_rules"
      [] cat = "skills"   -> "sync_skills"
      [] cat = "agents"   -> "sync_agents"
      [] cat = "commands" -> "sync_commands"
      [] cat = "mcp"      -> IF scoped THEN "sync_mcp_scoped" ELSE "sync_mcp"
      [] cat = "settings" -> "sync_settings"

\* A mutant of sync_all: the mcp block has lost its try/except.
GuardedWithoutMcp == {"rules", "skills", "agents", "commands", "settings"}

\* The categories whose call sync_all wraps in try/except Exception.
GuardedCategories == {"rules", "skills", "agents", "commands", "mcp", "settings"}

\* try: results[cat] = self.sync_x(...) except Exception as e:
\*     results[cat] = SyncResult(failed=1, failed_files=[f'{cat}: {e}'])
CategoryResult(cat, outcome) ==
    IF outcome.raises
    THEN SyncResult(0, 0, 1, 0, <<cat>>)
    ELSE outcome.result

\* The exception of a category's operation leaves sync_all.
CategoryEscapes(cat, outcome) ==
    outcome.raises /\ cat \notin GuardedCategories

\* The whole of AdapterBase.sync_all for an adapter with behaviour beh: the
\* results, or an escaped exception.
AdapterSyncAll(beh, scoped) ==
    LET cats == {Categories[i] : i \in 1..Len(Categories)} IN
    [escaped |-> \E cat \in cats : CategoryEscapes(cat, beh[CategoryOp(cat, scoped)]),
     results |-> [cat \in cats |-> CategoryResult(cat, beh[CategoryOp(cat, scoped)])]]

\* What one operation of an adapter may do.
Raises    == [raises |-> TRUE,  result |-> SyncResult(0, 0, 0, 0, << >>)]
SyncsOne  == [raises |-> FALSE, result |-> SyncResult(1, 0, 0, 0, << >>)]
SkipsOne  == [raises |-> FALSE, result |-> SyncResult(0, 1, 0, 1, << >>)]
FailsOne  == [raises |-> FALSE, result |-> SyncResult(1, 0, 1, 0, <<"item">>)]
Outcomes  == {Raises, SyncsOne, SkipsOne, FailsOne}

\* One try/except block of sync_all.
AdapterCategoryStep ==
    /\ adIdx <= Len(Categories)
    /\ ~adEscaped
    /\ LET cat == Categories[adIdx]
           op  == CategoryOp(cat, adScoped)
       IN  /\ adCalls' = Append(adCalls, op)
           /\ IF CategoryEscapes(cat, adBeh[op])
              THEN /\ adEscaped' = TRUE
                   /\ UNCHANGED adResults
              ELSE /\ adResults' = Put(adResults, cat, CategoryResult(cat, adBeh[op]))
                   /\ UNCHANGED adEscaped
    /\ adIdx' = adIdx + 1
    /\ UNCHANGED <<adBeh, adScoped>>

AllSync == [op \in Operations |-> SyncsOne]

AdapterParked ==
    /\ adBeh = AllSync
    /\ adScoped = FALSE
    /\ adIdx = 1
    /\ adResults = EmptyMap
    /\ adCalls = << >>
    /\ adEscaped = FALSE

(***************************************************************************)
(* SecretDetector (secret_detector.py).  A variable name is a sequence of  *)
(* characters; a value is its length and whether all its characters are in *)
(* the class [A-Za-z0-9_\-+=/.] of SECRET_VALUE_PATTERN.  A dict is the    *)
(* sequence of its items in insertion order.                               *)
(***************************************************************************)
SECRET_KEYWORDS ==
    << <<"A","P","I","_","K","E","Y">>, <<"A","P","I","K","E","Y">>,
       <<"A","P","I","-","K","E","Y">>,
       <<"S","E","C","R","E","T">>, <<"S","E","C","R","E","T","_","K","E","Y">>,
       <<"P","A","S","S","W","O","R","D">>, <<"P","A","S","S","W","D">>,
       <<"P","W","D">>,
       <<"T","O","K","E","N">>,
       <<"A","C","C","E","S","S","_","T","O","K","E","N">>,
       <<"A","U","T","H","_","T","O","K","E","N">>,
       <<"P","R","I","V","A","T","E","_","K","E","Y">> >>

SAFE_PREFIXES ==
    << <<"T","E","S","T","_">>, <<"E","X","A","M","P","L","E","_">>,
       <<"D","E","M","O","_">>, <<"M","O","C","K","_">>,
       <<"F","A","K","E","_">>, <<"D","U","M","M","Y","_">> >>

\* The {16,} of SECRET_VALUE_PATTERN
SecretMinLen == 16

LowerLetters == <<"a","b","c","d","e","f","g","h","i","j","k","l","m",
                  "n","o","p","q","r","s","t","u","v","w","x","y","z">>
UpperLetters == <<"A","B","C","D","E","F","G","H","I","J","K","L","M",
                  "N","O","P","Q","R","S","T","U","V","W","X","Y","Z">>

\* str.upper(), character by character
UpperChar(c) ==
    IF \E i \in 1..Len(LowerLetters) : LowerLetters[i] = c
    THEN UpperLetters[CHOOSE i \in 1..Len(LowerLetters) : LowerLetters[i] = c]
    ELSE c
Upper(s) == [i \in 1..Len(s) |-> UpperChar(s[i])]

\* s.startswith(prefix)
StartsWith(s, prefix) ==
    /\ Len(s) >= Len(prefix)
    /\ SubSeq(s, 1, Len(prefix)) = prefix

\* sub in s
Contains(s, sub) ==
    \E i \in 1..(Len(s) - Len(sub) + 1) : SubSeq(s, i, i + Len(sub) - 1) = sub

\* SECRET_VALUE_PATTERN.match(var_value), the pattern being
\* ^[A-Za-z0-9_\-+=/.]{16,}$ . A value is [len, in_class, nl]: nl says that
\* its last character is a newline, len is the number of the characters
\* before that newline (of all its characters when nl is FALSE) and in_class
\* says that all of those are of the class. $ matches at the end of the
\* string and also just before a newline that ends it.
MatchesSecretValue(v) == v.len >= SecretMinLen /\ v.in_class

\* [x for x in seq if x in keep], for a set of indices keep
RECURSIVE FilterIdx(_, _, _)
FilterIdx(seq, keep, i) ==
    IF i > Len(seq) THEN << >>
    ELSE (IF i \in keep THEN <<seq[i]>> ELSE << >>) \o FilterIdx(seq, keep, i + 1)

\* scan (lines 48-95)
MatchedKeywords(var_name) ==
    FilterIdx(SECRET_KEYWORDS,
              {k \in 1..Len(SECRET_KEYWORDS) :
                   Contains(Upper(var_name), SECRET_KEYWORDS[k])}, 1)

HasSafePrefix(var_name) ==
    \E k \in 1..Len(SAFE_PREFIXES) : StartsWith(Upper(var_name), SAFE_PREFIXES[k])

IsDetected(item) ==
    /\ ~HasSafePrefix(item.name)
    /\ MatchedKeywords(item.name) # << >>
    /\ MatchesSecretValue(item.value)

\* A mutant: the detection carries the value.
DetectionWithValue(item) ==
    [var_name |-> item.name, keywords_matched |-> MatchedKeywords(item.name),
     confidence |-> "medium", var_value |-> item.value]

Detection(item) ==
    [var_name |-> item.name, keywords_matched |-> MatchedKeywords(item.name),
     confidence |-> "medium"]

Scan(env_vars) ==
    LET hits == FilterIdx(env_vars,
                          {i \in 1..Len(env_vars) : IsDetected(env_vars[i])}, 1)
    IN  [i \in 1..Len(hits) |-> Detection(hits[i])]

\* dict[k] = v: an existing key keeps its position
DictSet(d, k, v) ==
    IF \E i \in 1..Len(d) : d[i].name = k
    THEN [i \in 1..Len(d) |-> IF d[i].name = k THEN [name |-> k, value |-> v]
                                               ELSE d[i]]
    ELSE Append(d, [name |-> k, value |-> v])

\* d.update(other)
RECURSIVE DictUpdate(_, _, _)
DictUpdate(d, other, i) ==
    IF i > Len(other) THEN d
    ELSE DictUpdate(DictSet(d, other[i].name, other[i].value), other, i + 1)

\* scan_mcp_env (lines 97-119): the env dicts of all servers merged, in
\* server order, then scanned.
\* A mutant: no server's env dict is read.
NoEnvVars(mcp_servers, i) == << >>

RECURSIVE AllEnvVars(_, _)
AllEnvVars(mcp_servers, i) ==
    IF i = 0 THEN << >>
    ELSE DictUpdate(AllEnvVars(mcp_servers, i - 1), mcp_servers[i].config.env, 1)

ScanMcpEnv(mcp_servers) == Scan(AllEnvVars(mcp_servers, Len(mcp_servers)))

\* A mutant of should_block: never blocks.
ShouldNeverBlock(detections, allow_secrets) == FALSE

\* should_block (lines 121-139)
ShouldBlock(detections, allow_secrets) ==
    IF detections = << >> THEN FALSE
    ELSE IF allow_secrets THEN FALSE
    ELSE TRUE

\* format_warnings (lines 141-167): the count and, per detection, the
\* variable name and the reason; never a value.
FormatWarnings(detections) ==
    [count |-> Len(detections),
     lines |-> [i \in 1..Len(detections) |->
                   <<detections[i].var_name, detections[i].keywords_matched>>]]

\* orchestrator.py 104-108: what sync_all returns when the scan blocks
BlockedResult(detections) ==
    ("_blocked" :> TRUE) @@ ("_reason" :> "secrets_detected")
        @@ ("_warnings" :> FormatWarnings(detections))

(***************************************************************************)
(* The environment of a run of SyncOrchestrator (orchestrator.py).         *)
(***************************************************************************)
\* AdapterRegistry.list_targets(): the registered names, sorted
TargetOrder == <<"codex", "gemini", "opencode">>

\* The order in which SourceReader.get_source_paths lists the files
PathOrder == <<"CLAUDE.md", ".mcp.json">>

\* What a registered adapter class does: "ok" syncs every category;
\* "mcp_raises" raises in its MCP operation; "sync_raises" overrides
\* sync_all and raises; "ctor_raises" cannot be instantiated (register
\* checks issubclass only, registry.py 50-61).
AdapterKinds == {"ok", "mcp_raises", "sync_raises", "ctor_raises"}

Registries ==
    {r \in [Targets -> AdapterKinds] :
        Cardinality({t \in Targets : r[t] # "ok"}) <= 1}

\* Values of environment variables
LongValue  == [len |-> 32, in_class |-> TRUE, nl |-> FALSE]
ShortValue == [len |-> 8, in_class |-> TRUE, nl |-> FALSE]
Sentence   == [len |-> 32, in_class |-> FALSE, nl |-> FALSE]

N_API_KEY      == <<"A","P","I","_","K","E","Y">>
N_api_key      == <<"a","p","i","_","k","e","y">>
N_TEST_API_KEY == <<"T","E","S","T","_","A","P","I","_","K","E","Y">>
N_PATH         == <<"P","A","T","H">>
N_DB_PASSWORD  == <<"D","B","_","P","A","S","S","W","O","R","D">>

EnvItem(name, value) == [name |-> name, value |-> value]

\* An entry of get_mcp_servers_with_scope (source_reader.py 427-483)
Server(name, env, source) ==
    [name |-> name,
     config |-> [command |-> "npx", env |-> env],
     metadata |-> [source |-> source, plugin_name |-> "plug",
                   plugin_version |-> "1.0"]]

\* A server named api-server whose arguments reference the variable that
\* its environment map sets to a value of 16 or more alphanumeric characters.
N_KEY == <<"K","E","Y">>
ApiServer(var_name, reference) ==
    [name |-> "api-server",
     config |-> [command |-> "npx", args |-> <<reference>>,
                 env |-> << EnvItem(var_name, LongValue) >>],
     metadata |-> [source |-> "file", scope |-> "user", plugin_name |-> "plug",
                   plugin_version |-> "1.0"]]
KeyServers == << ApiServer(N_KEY, "${KEY}") >>
ApiKeyServers == << ApiServer(N_API_KEY, "${API_KEY}") >>

\* The discovered MCP servers the model draws a run's from.
ServerConfigs ==
    { << >>,
      KeyServers,
      ApiKeyServers,
      << Server("fs", << EnvItem(N_PATH, ShortValue) >>, "file") >>,
      << Server("api", << EnvItem(N_API_KEY, LongValue) >>, "file") >>,
      << Server("api", << EnvItem(N_TEST_API_KEY, LongValue),
                          EnvItem(N_DB_PASSWORD, Sentence) >>, "file") >>,
      << Server("api", << EnvItem(N_API_KEY, LongValue) >>, "file"),
         Server("dev", << EnvItem(N_API_KEY, ShortValue) >>, "file") >>,
      << Server("fs", << >>, "file"),
         Server("ext", << EnvItem(N_api_key, LongValue),
                          EnvItem(N_DB_PASSWORD, LongValue) >>, "plugin") >> }

\* state.json when the run starts
RunFiles == {MissingFile, PartialFile(V2Doc), CompleteFile(V1Doc),
             CompleteFile(V2Doc)}

\* backup_manager.cleanup_old_backups(target, keep_count=10)
KeepCount == 10

Ev(ev, target) == [ev |-> ev, target |-> target]

\* The effects a run may have, as events of its log
WriteEvents == {"adapter_sync", "write", "backup", "symlink_cleanup",
                "record_sync", "record_plugin", "backup_prune"}

(***************************************************************************)
(* ConflictDetector (conflict_detector.py)                                 *)
(***************************************************************************)
\* check (lines 34-89), for the StateManager state and the current files
ConflictCheck(state, files, target) ==
    LET targets == Get(state, "targets", EmptyMap) IN
    IF ~Has(targets, target) THEN << >>
    ELSE LET file_hashes == Get(targets[target], "file_hashes", EmptyMap)
             changed == {i \in 1..Len(PathOrder) :
                            /\ Has(file_hashes, PathOrder[i])
                            /\ \/ HashOf(files[PathOrder[i]]) = NoHash
                               \/ file_hashes[PathOrder[i]] # HashOf(files[PathOrder[i]])}
             paths == FilterIdx(PathOrder, changed, 1)
         IN  [i \in 1..Len(paths) |->
                 [file_path |-> paths[i],
                  stored_hash |-> file_hashes[paths[i]],
                  current_hash |-> HashOf(files[paths[i]]),
                  target_name |-> target]]

\* check_all (lines 91-105): the three targets are fixed in the code
ConflictCheckAll(state, files) ==
    [t \in {"codex", "gemini", "opencode"} |-> ConflictCheck(state, files, t)]

\* A mutant of any(conflicts.values()): true of every non-empty dict.
AnyKey(conflicts) == DOMAIN conflicts # {}

\* any(conflicts.values()) (orchestrator.py 122 and 195)
AnyConflicts(conflicts) == \E t \in DOMAIN conflicts : conflicts[t] # << >>

(***************************************************************************)
(* SyncOrchestrator.__init__ and sync_all (orchestrator.py 33-198), one    *)
(* action per stage of the pipeline.                                       *)
(***************************************************************************)
\* What the run can change outside its own memory
Snapshot == [file |-> stateFile, baks |-> bakCount,
             tfiles |-> rnTargetFiles, backups |-> rnBackups]

\* The operations of an adapter of the given kind
KindBehaviour(kind) ==
    IF kind = "mcp_raises"
    THEN [op \in Operations |->
             IF op \in {"sync_mcp", "sync_mcp_scoped"} THEN Raises ELSE SyncsOne]
    ELSE AllSync

\* _preview_sync (lines 240-306): the sections of the diff, nothing written
PreviewSync(target) ==
    [preview |-> {<<target, sec>> :
                     sec \in {s \in {"rules", "mcp"} :
                                 \/ s = "rules" /\ rnSrc["CLAUDE.md"] # 0
                                 \/ s = "mcp" /\ rnServers # << >>}},
     is_preview |-> TRUE]

\* isinstance(result, SyncResult) for every value of a target's results
HoldsSyncResults(target_results) == ~Has(target_results, "is_preview")

RECURSIVE SumOver(_, _, _)
SumOver(target_results, keys, field) ==
    IF keys = {} THEN 0
    ELSE LET k == CHOOSE x \in keys : TRUE
         IN  target_results[k][field] + SumOver(target_results, keys \ {k}, field)

\* The sum of a count over a target's SyncResult values
Total(target_results, field) ==
    IF HoldsSyncResults(target_results)
    THEN SumOver(target_results, DOMAIN target_results, field)
    ELSE 0

\* CompatibilityReporter.generate (compatibility_reporter.py 41-142): the
\* summary per target
ReportSummary(target_results) ==
    LET synced  == Total(target_results, "synced")
        adapted == Total(target_results, "adapted")
        skipped == Total(target_results, "skipped")
        failed  == Total(target_results, "failed")
    IN  [total_synced |-> synced, total_adapted |-> adapted,
         total_skipped |-> skipped, total_failed |-> failed,
         status |-> IF failed > 0
                    THEN (IF synced > 0 \/ adapted > 0 THEN "partial" ELSE "failed")
                    ELSE IF synced = 0 /\ adapted = 0 /\ skipped = 0
                    THEN "nothing" ELSE "success"]

TargetKeys(results) == DOMAIN results \cap Targets

CompatReport(results) == [t \in TargetKeys(results) |-> ReportSummary(results[t])]

\* has_issues (lines 205-224)
HasIssues(report) ==
    \E t \in DOMAIN report :
        report[t].total_adapted > 0 \/ report[t].total_failed > 0

\* _update_state lines 354-361: the hashes of the source files that exist
SourceHashes(files) ==
    [p \in {q \in Paths : files[q] # 0} |-> HashOf(files[p])]

\* _extract_plugin_metadata (lines 308-342)
ExtractPluginMetadata(mcp_scoped, now) ==
    LET fromPlugin == {i \in 1..Len(mcp_scoped) :
                          mcp_scoped[i].metadata.source = "plugin"}
        names == {mcp_scoped[i].metadata.plugin_name : i \in fromPlugin}
    IN  [n \in names |->
            LET mine == FilterIdx(mcp_scoped,
                                  {i \in fromPlugin :
                                      mcp_scoped[i].metadata.plugin_name = n}, 1)
            IN  [version |-> mine[1].metadata.plugin_version,
                 mcp_count |-> Len(mine),
                 mcp_servers |-> [i \in 1..Len(mine) |-> mine[i].name],
                 last_sync |-> now]]

\* A mutant of record_plugin_sync: the new metadata is merged into the
\* section, so that entries recorded earlier survive.
RecordPluginStateMerged(state, plugins_metadata, account) ==
    LET Merge(old) == [n \in DOMAIN old \cup DOMAIN plugins_metadata |->
                          IF n \in DOMAIN plugins_metadata
                          THEN plugins_metadata[n] ELSE old[n]]
    IN  IF account # NoAccount
        THEN LET accounts == Get(state, "accounts", EmptyMap)
                 acc == Get(accounts, account, EmptyMap)
             IN  Put(state, "accounts",
                     Put(accounts, account,
                         Put(acc, "plugins", Merge(Get(acc, "plugins", EmptyMap)))))
        ELSE Put(state, "plugins", Merge(Get(state, "plugins", EmptyMap)))

\* record_plugin_sync (state_manager.py 405-433), before its _save
RecordPluginState(state, plugins_metadata, account) ==
    IF account # NoAccount
    THEN LET accounts == Get(state, "accounts", EmptyMap)
             acc == Get(accounts, account, EmptyMap)
         IN  Put(state, "accounts",
                 Put(accounts, account, Put(acc, "plugins", plugins_metadata)))
    ELSE Put(state, "plugins", plugins_metadata)

\* _update_state lines 363-390: the state after record_sync has been called
\* for the first n targets of the results.
RECURSIVE RecordedUpTo(_, _, _, _, _)
RecordedUpTo(state, results, hashes, now, n) ==
    IF n = 0 THEN state
    ELSE LET t == TargetOrder[n]
             before == RecordedUpTo(state, results, hashes, now, n - 1)
         IN  IF ~Has(results, t) THEN before
             ELSE RecordSyncState(before, now, t, hashes,
                                  Total(results[t], "synced"),
                                  Total(results[t], "skipped"),
                                  Total(results[t], "failed"),
                                  rnCfg.account)

\* SyncOrchestrator(...): __init__ constructs the StateManager, whose _load
\* may migrate or set aside state.json; then the caller calls sync_all.
RunConstruct ==
    /\ rnPc = "new"
    /\ \E renameFails \in BOOLEAN, saveFails \in BOOLEAN :
          LET r == LoadResult(stateFile, bakCount, renameFails, saveFails) IN
          /\ stateFile' = r.file
          /\ bakCount' = r.baks
          /\ rnMem' = r.state
          /\ rnPc' = IF r.raised THEN "init_raised" ELSE "sync_all"
          /\ rnAtCall' = [Snapshot EXCEPT !.file = r.file, !.baks = r.baks]
    /\ UNCHANGED <<clock, runEnv, rnDetections, rnConflicts, rnBackupMgr,
                   rnResults, rnIdx, rnTargetFiles, rnBackups, rnLog, rnAtNew>>

\* Lines 86-112: discover the sources and scan the MCP environment.
RunSecretScan ==
    /\ rnPc = "sync_all"
    /\ LET detections == ScanMcpEnv(rnServers) IN
       /\ rnDetections' = detections
       /\ rnLog' = Append(rnLog, Ev("secret_scan", "-"))
       /\ IF ShouldBlock(detections, rnCfg.allow_secrets)
          THEN /\ rnResults' = BlockedResult(detections)
               /\ rnPc' = "returned"
          ELSE /\ rnPc' = "conflict"
               /\ UNCHANGED rnResults
    /\ UNCHANGED <<stateVars, runEnv, rnMem, rnConflicts, rnBackupMgr, rnIdx,
                   rnTargetFiles, rnBackups, rnAtNew, rnAtCall>>

\* Lines 114-126
RunConflictScan ==
    /\ rnPc = "conflict"
    /\ rnConflicts' = ConflictCheckAll(rnMem, rnSrc)
    /\ rnLog' = Append(rnLog, Ev("conflict_scan", "-"))
    /\ rnPc' = "backup"
    /\ UNCHANGED <<stateVars, runEnv, rnMem, rnDetections, rnBackupMgr,
                   rnResults, rnIdx, rnTargetFiles, rnBackups, rnAtNew, rnAtCall>>

\* Lines 128-137: the BackupManager is created; no backup is made.
RunBackupStage ==
    /\ rnPc = "backup"
    /\ rnBackupMgr' = ~rnCfg.dry_run
    /\ rnResults' = EmptyMap
    /\ rnIdx' = 1
    /\ rnPc' = "adapters"
    /\ UNCHANGED <<stateVars, runEnv, rnMem, rnDetections, rnConflicts,
                   rnTargetFiles, rnBackups, rnLog, rnAtNew, rnAtCall>>

\* Lines 140-157: one iteration of the loop over the targets.  get_adapter
\* (line 141) is outside the try.
RunAdapter ==
    /\ rnPc = "adapters"
    /\ rnIdx <= Len(TargetOrder)
    /\ LET target == TargetOrder[rnIdx]
           kind == rnRegistry[target]
           init == Append(rnLog, Ev("adapter_init", target))
           sync == Append(init, Ev("adapter_sync", target))
           error == ("error" :> SyncResult(0, 0, 1, 0, <<"exc">>))
       IN  IF kind = "ctor_raises"
           THEN /\ rnPc' = "adapter_raised"
                /\ rnLog' = init
                /\ UNCHANGED <<rnResults, rnIdx, rnTargetFiles>>
           ELSE IF rnCfg.dry_run
           THEN /\ rnResults' = Put(rnResults, target, PreviewSync(target))
                /\ rnLog' = init
                /\ rnIdx' = rnIdx + 1
                /\ UNCHANGED <<rnPc, rnTargetFiles>>
           ELSE IF kind = "sync_raises"
           THEN \E wrote \in BOOLEAN :
                /\ rnResults' = Put(rnResults, target, error)
                /\ rnLog' = IF wrote THEN Append(sync, Ev("write", target)) ELSE sync
                /\ rnTargetFiles' = IF wrote
                                    THEN [rnTargetFiles EXCEPT ![target] = @ + 1]
                                    ELSE rnTargetFiles
                /\ rnIdx' = rnIdx + 1
                /\ UNCHANGED rnPc
           ELSE LET r == AdapterSyncAll(KindBehaviour(kind), rnServers # << >>) IN
                /\ rnResults' = Put(rnResults, target,
                                    IF r.escaped THEN error ELSE r.results)
                /\ rnLog' = Append(sync, Ev("write", target))
                /\ rnTargetFiles' = [rnTargetFiles EXCEPT ![target] = @ + 1]
                /\ rnIdx' = rnIdx + 1
                /\ UNCHANGED rnPc
    /\ UNCHANGED <<stateVars, runEnv, rnMem, rnDetections, rnConflicts,
                   rnBackupMgr, rnBackups, rnAtNew, rnAtCall>>

\* A mutant of the end of the loop over the targets (line 140): the loop
\* stops before the last target.
RunSymlinkCleanupEarly ==
    /\ rnPc = "adapters"
    /\ rnIdx >= Len(TargetOrder)
    /\ rnLog' = IF rnCfg.dry_run THEN rnLog
                ELSE Append(rnLog, Ev("symlink_cleanup", "-"))
    /\ rnPc' = "report"
    /\ UNCHANGED <<stateVars, runEnv, rnMem, rnDetections, rnConflicts,
                   rnBackupMgr, rnResults, rnIdx, rnTargetFiles, rnBackups,
                   rnAtNew, rnAtCall>>

\* Lines 159-170
RunSymlinkCleanup ==
    /\ rnPc = "adapters"
    /\ rnIdx > Len(TargetOrder)
    /\ rnLog' = IF rnCfg.dry_run THEN rnLog
                ELSE Append(rnLog, Ev("symlink_cleanup", "-"))
    /\ rnPc' = "report"
    /\ UNCHANGED <<stateVars, runEnv, rnMem, rnDetections, rnConflicts,
                   rnBackupMgr, rnResults, rnIdx, rnTargetFiles, rnBackups,
                   rnAtNew, rnAtCall>>

\* Lines 172-180
RunCompatReport ==
    /\ rnPc = "report"
    /\ LET report == CompatReport(rnResults) IN
       rnResults' = IF HasIssues(report)
                    THEN Put(rnResults, "_compatibility_report", report)
                    ELSE rnResults
    /\ rnLog' = Append(rnLog, Ev("compat_report", "-"))
    /\ rnPc' = "state"
    /\ UNCHANGED <<stateVars, runEnv, rnMem, rnDetections, rnConflicts,
                   rnBackupMgr, rnIdx, rnTargetFiles, rnBackups,
                   rnAtNew, rnAtCall>>

\* Lines 182-184 and _update_state (344-401): record_sync for every target
\* of the results, then record_plugin_sync; each saves, and a failing save
\* raises out of sync_all.  failAt: the call whose save fails, 0 for none.
RunUpdateState ==
    /\ rnPc = "state"
    /\ IF rnCfg.dry_run
       THEN /\ rnPc' = "prune"
            /\ UNCHANGED <<stateVars, rnMem, rnLog>>
       ELSE \E failAt \in 0..(Len(TargetOrder) + 1) :
            LET n == Len(TargetOrder)
                hashes == SourceHashes(rnSrc)
                Rec(k) == RecordedUpTo(rnMem, rnResults, hashes, clock, k)
                plugins == ExtractPluginMetadata(rnServers, clock)
                withPlugins == RecordPluginState(Rec(n), plugins, rnCfg.account)
                calls == IF failAt \in 1..n THEN failAt ELSE n
                events == [i \in 1..calls |-> Ev("record_sync", TargetOrder[i])]
                saved == IF failAt = 1 THEN stateFile
                         ELSE IF failAt \in 2..n THEN CompleteFile(Rec(failAt - 1))
                         ELSE CompleteFile(Rec(n))
            IN  /\ failAt = n + 1 => DOMAIN plugins # {}
                /\ rnMem' = IF failAt \in 1..n THEN Rec(failAt)
                            ELSE IF DOMAIN plugins # {} THEN withPlugins
                            ELSE Rec(n)
                /\ stateFile' = IF failAt = 0 /\ DOMAIN plugins # {}
                                THEN SaveResult(saved, withPlugins, FALSE)
                                ELSE saved
                /\ rnLog' = IF failAt \notin 1..n /\ DOMAIN plugins # {}
                            THEN Append(rnLog \o events, Ev("record_plugin", "-"))
                            ELSE rnLog \o events
                /\ rnPc' = IF failAt = 0 THEN "prune" ELSE "state_raised"
                /\ clock' = clock + 1
                /\ UNCHANGED bakCount
    /\ UNCHANGED <<runEnv, rnDetections, rnConflicts, rnBackupMgr, rnResults,
                   rnIdx, rnTargetFiles, rnBackups, rnAtNew, rnAtCall>>

\* Lines 186-192
RunBackupPrune ==
    /\ rnPc = "prune"
    /\ IF ~rnCfg.dry_run /\ rnBackupMgr
       THEN /\ rnBackups' = [t \in Targets |->
                                IF rnBackups[t] > KeepCount THEN KeepCount
                                ELSE rnBackups[t]]
            /\ rnLog' = Append(rnLog, Ev("backup_prune", "-"))
       ELSE UNCHANGED <<rnBackups, rnLog>>
    /\ rnPc' = "finish"
    /\ UNCHANGED <<stateVars, runEnv, rnMem, rnDetections, rnConflicts,
                   rnBackupMgr, rnResults, rnIdx, rnTargetFiles, rnAtNew, rnAtCall>>

\* Lines 194-198
RunReturn ==
    /\ rnPc = "finish"
    /\ rnResults' = IF AnyConflicts(rnConflicts)
                    THEN Put(rnResults, "_conflicts", rnConflicts)
                    ELSE rnResults
    /\ rnPc' = "returned"
    /\ UNCHANGED <<stateVars, runEnv, rnMem, rnDetections, rnConflicts,
                   rnBackupMgr, rnIdx, rnTargetFiles, rnBackups, rnLog,
                   rnAtNew, rnAtCall>>

NoBackups == [t \in Targets |-> 0]

RunParked ==
    /\ rnCfg = [dry_run |-> FALSE, allow_secrets |-> FALSE, account |-> NoAccount]
    /\ rnRegistry = [t \in Targets |-> "ok"]
    /\ rnServers = << >>
    /\ rnSrc = [p \in Paths |-> 0]
    /\ rnPc = "new"
    /\ rnMem = FreshState
    /\ rnDetections = << >>
    /\ rnConflicts = EmptyMap
    /\ rnBackupMgr = FALSE
    /\ rnResults = EmptyMap
    /\ rnIdx = 1
    /\ rnTargetFiles = [t \in Targets |-> 0]
    /\ rnBackups = NoBackups
    /\ rnLog = << >>
    /\ rnAtNew = [file |-> MissingFile, baks |-> 0,
                  tfiles |-> [t \in Targets |-> 0], backups |-> NoBackups]
    /\ rnAtCall = rnAtNew

(***************************************************************************)
(* SyncResult.status (adapters/result.py 53-74), the status of the data    *)
(* model, and the lookup of a target's stored state (state_manager.py      *)
(* 267-279).                                                               *)
(***************************************************************************)
Status(synced, skipped, failed) ==
    IF synced + skipped + failed = 0 THEN "nothing"
    ELSE IF failed = 0 THEN "success"
    ELSE IF synced > 0 /\ failed > 0 THEN "partial"
    ELSE "failed"

\* A mutant: the record is looked up in the flat targets whatever the account.
TargetStateOfFlat(state, target, account) ==
    LET target_state == Get(Get(state, "targets", EmptyMap), target, EmptyMap)
    IN  [found |-> DOMAIN target_state # {}, data |-> target_state]

\* The stored state of a target, flat (account=None) or of an account;
\* found is FALSE where the code sees None or an empty dict.
TargetStateOf(state, target, account) ==
    LET holder == IF account # NoAccount
                  THEN Get(Get(state, "accounts", EmptyMap), account, EmptyMap)
                  ELSE state
        target_state == Get(Get(holder, "targets", EmptyMap), target, EmptyMap)
    IN  [found |-> DOMAIN holder # {} /\ DOMAIN target_state # {},
         data |-> target_state]

\* The counters the model draws go up to MaxCount.
MaxCount == 3

\* record_sync called on a fresh state with the drawn counters
ApplyRecordSync ==
    /\ ~fnOut.done
    /\ fnOut' = [done |-> TRUE,
                 state |-> RecordSyncState(FreshState, clock, fnIn.target,
                                           EmptyMap, fnIn.synced, fnIn.skipped,
                                           fnIn.failed, fnIn.account),
                 status |-> Status(fnIn.synced, fnIn.skipped, fnIn.failed)]
    /\ UNCHANGED fnIn

(***************************************************************************)
(* StateManager.detect_drift (state_manager.py 254-295).  The result is a  *)
(* list; the dicts are iterated in the order of PathOrder.                 *)
(***************************************************************************)
\* A mutant of line 287: a path is reported only when another digest is
\* stored for it.
DriftedIfStored(stored_hashes, current_hashes, path) ==
    /\ Has(stored_hashes, path)
    /\ stored_hashes[path] # current_hashes[path]

\* Lines 286-287: stored_hashes.get(path) != current_hash
Drifted(stored_hashes, current_hashes, path) ==
    \/ ~Has(stored_hashes, path)
    \/ stored_hashes[path] # current_hashes[path]

\* list(d.keys())
KeyList(d) == FilterIdx(PathOrder, {i \in 1..Len(PathOrder) : Has(d, PathOrder[i])}, 1)

DetectDrift(state, target, current_hashes, account) ==
    LET target_state == TargetStateOf(state, target, account) IN
    IF ~target_state.found THEN KeyList(current_hashes)
    ELSE LET stored_hashes == Get(target_state.data, "file_hashes", EmptyMap)
             changed == {i \in 1..Len(PathOrder) :
                            /\ Has(current_hashes, PathOrder[i])
                            /\ Drifted(stored_hashes, current_hashes, PathOrder[i])}
             removed == {i \in 1..Len(PathOrder) :
                            /\ Has(stored_hashes, PathOrder[i])
                            /\ ~Has(current_hashes, PathOrder[i])}
         IN  FilterIdx(PathOrder, changed, 1) \o FilterIdx(PathOrder, removed, 1)

\* Every dict of digests over the source paths
AllHashMaps ==
    UNION {[ps -> {HashOf(1), HashOf(2)}] : ps \in SUBSET Paths}

\* States a StateManager can hold: fresh, loaded, after a record_sync with
\* or without an account, after a record_plugin_sync for an account.
DriftStates ==
    {FreshState, V2Doc,
     RecordPluginState(FreshState, ("plug" :> [version |-> "1.0"]), "other")}
        \cup {RecordSyncState(V2Doc, 2, "codex", h, 1, 0, 0, a) :
                 h \in AllHashMaps, a \in {NoAccount, "work"}}

ApplyDetectDrift ==
    /\ ~fnOut.done
    /\ fnOut' = [done |-> TRUE,
                 drifted |-> DetectDrift(fnIn.state, fnIn.target,
                                         fnIn.current_hashes, fnIn.account)]
    /\ UNCHANGED fnIn

(***************************************************************************)
(* The record calls of a StateManager, with the history of what the calls  *)
(* that returned have recorded, and get_plugin_status (487-504).           *)
(***************************************************************************)
PluginsOf(state, account) ==
    IF account # NoAccount
    THEN Get(Get(Get(state, "accounts", EmptyMap), account, EmptyMap),
             "plugins", EmptyMap)
    ELSE Get(state, "plugins", EmptyMap)

\* The plugin metadata the model draws
PluginCases ==
    { ("plug" :> [version |-> "1.0", mcp_count |-> 1]),
      ("plug" :> [version |-> "2.0", mcp_count |-> 2])
          @@ ("grd" :> [version |-> "1.0", mcp_count |-> 1]) }

\* The call of process p has returned: its _save replaced state.json.
Returned(p) == stateFile' = CompleteFile(mgr'[p].state)

\* record_sync of process p, and what it has recorded once it returned
TrackedRecordSync(p, target, hashes, counts, account) ==
    /\ RecordSync(p, target, hashes, counts, account)
    /\ recorded' =
          [recorded EXCEPT
             !.targets = IF Returned(p)
                         THEN Put(@, <<account, target>>,
                                  [file_hashes |-> hashes,
                                   status |-> RecordStatus(counts[1], counts[2], counts[3]),
                                   items_synced |-> counts[1],
                                   items_skipped |-> counts[2],
                                   items_failed |-> counts[3]])
                         ELSE @,
             !.writers = @ \cup {p},
             !.failed = @ \/ ~Returned(p)]

\* record_plugin_sync (405-433) of process p
TrackedRecordPluginSync(p, plugins_metadata, account) ==
    /\ opCount < MaxOps
    /\ mgr[p].loaded
    /\ \E saveFails \in BOOLEAN :
          LET new == RecordPluginState(mgr[p].state, plugins_metadata, account) IN
          /\ mgr' = [mgr EXCEPT ![p].state = new]
          /\ stateFile' = SaveResult(stateFile, new, saveFails)
          /\ recorded' =
                [recorded EXCEPT
                   !.plugins = IF saveFails THEN @
                               ELSE Put(@, account, plugins_metadata),
                   !.writers = @ \cup {p},
                   !.failed = @ \/ saveFails]
    /\ opCount' = opCount + 1
    /\ UNCHANGED <<bakCount, clock, lastLoad, v1Seen>>

(***************************************************************************)
(* Runs in succession: the caller constructs a new SyncOrchestrator and    *)
(* calls sync_all again (commands/sync.py 135-171); between two runs a     *)
(* source file may be edited.                                              *)
(***************************************************************************)
\* The number of runs made in succession.
MaxRuns == 2

\* What a new StateManager reads from state.json (state_manager.py 73-140)
StateOnDisk == LoadResult(stateFile, bakCount, FALSE, FALSE).state

\* No output file was edited by hand.
NoEdit == << >>

\* The file an adapter writes for the MCP servers of a project
\* (adapters/codex.py, gemini.py, opencode.py).
OutputFile(target) ==
    CASE target = "codex"    -> ".codex/codex.toml"
      [] target = "gemini"   -> ".gemini/settings.json"
      [] target = "opencode" -> "opencode.json"

\* The next run begins: a new orchestrator, the same sources and targets.
\* rnPrev.hand is the edit made by hand since the run before.
RunAgain ==
    /\ rnPc = "returned"
    /\ rnPrev.runs < MaxRuns
    /\ rnPrev' = [runs |-> rnPrev.runs + 1, edited |-> FALSE,
                  changed |-> rnPrev.edited, state |-> StateOnDisk,
                  pending |-> NoEdit, hand |-> rnPrev.pending]
    /\ rnPc' = "new"
    /\ rnMem' = FreshState
    /\ rnDetections' = << >>
    /\ rnConflicts' = EmptyMap
    /\ rnBackupMgr' = FALSE
    /\ rnResults' = EmptyMap
    /\ rnIdx' = 1
    /\ rnLog' = << >>
    /\ rnAtNew' = Snapshot
    /\ rnAtCall' = Snapshot
    /\ UNCHANGED <<stateVars, runEnv, rnTargetFiles, rnBackups>>

\* The user edits, creates or deletes CLAUDE.md after a run has returned.
SourceEdit ==
    /\ rnPc = "returned"
    /\ ~rnPrev.edited
    /\ \E c \in {0, 1, 2} :
          /\ c # rnSrc["CLAUDE.md"]
          /\ rnSrc' = [rnSrc EXCEPT !["CLAUDE.md"] = c]
    /\ rnPrev' = [rnPrev EXCEPT !.edited = TRUE]
    /\ UNCHANGED <<stateVars, rnCfg, rnRegistry, rnServers, rnPc, rnMem,
                   rnDetections, rnConflicts, rnBackupMgr, rnResults, rnIdx,
                   rnTargetFiles, rnBackups, rnLog, rnAtNew, rnAtCall>>

\* The user edits or deletes by hand an output file a run has written,
\* after the run has returned; the source files stay as they are.
HandEdit ==
    /\ rnPc = "returned"
    /\ rnPrev.runs < MaxRuns
    /\ rnPrev.pending = NoEdit
    /\ \E t \in Targets, how \in {"edited", "deleted"} :
          /\ rnTargetFiles[t] > 0
          /\ rnPrev' = [rnPrev EXCEPT !.pending = [target |-> t, how |-> how]]
    /\ UNCHANGED <<stateVars, runEnv, rnPc, rnMem, rnDetections, rnConflicts,
                   rnBackupMgr, rnResults, rnIdx, rnTargetFiles, rnBackups,
                   rnLog, rnAtNew, rnAtCall>>

(***************************************************************************)
(* SecretDetector.scan applied to drawn dicts of environment variables.    *)
(***************************************************************************)
N_SECRET_KEY    == <<"S","E","C","R","E","T","_","K","E","Y">>
N_MY_TEST_TOKEN == <<"M","Y","_","T","E","S","T","_","T","O","K","E","N">>
N_demo_pwd      == <<"d","e","m","o","_","p","w","d">>

ScanNames == {N_API_KEY, N_api_key, N_TEST_API_KEY, N_PATH, N_DB_PASSWORD,
              N_KEY, N_SECRET_KEY, N_MY_TEST_TOKEN, N_demo_pwd}

\* Values one character short of the pattern's minimum and at it.
ScanValues == [len : {SecretMinLen - 1, SecretMinLen}, in_class : BOOLEAN,
               nl : BOOLEAN]

\* dicts of one and of two variables: the names are distinct
ScanItems == { EnvItem(name, v) : name \in ScanNames, v \in ScanValues }
ScanEnvs ==
    { <<x>> : x \in ScanItems }
        \cup { e \in { <<x, y>> : x \in ScanItems, y \in ScanItems } :
                   e[1].name # e[2].name }

ApplyScan ==
    /\ ~fnOut.done
    /\ fnOut' = [done |-> TRUE, detections |-> Scan(fnIn.env_vars)]
    /\ UNCHANGED fnIn

(***************************************************************************)
(* The secret scan applied to two MCP configurations with the same servers *)
(* and variable names.                                                     *)
(***************************************************************************)
\* The servers and variable names of a configuration, with the values v1
\* and v2 given to its two variables.
TwinShapes == {"two_vars", "same_var_twice", "safe_and_plain"}
Shaped(shape, v1, v2) ==
    IF shape = "two_vars"
    THEN << Server("api", << EnvItem(N_API_KEY, v1), EnvItem(N_PATH, v2) >>,
                   "file") >>
    ELSE IF shape = "same_var_twice"
    THEN << Server("api", << EnvItem(N_API_KEY, v1) >>, "file"),
            Server("dev", << EnvItem(N_API_KEY, v2) >>, "file") >>
    ELSE << Server("ext", << EnvItem(N_TEST_API_KEY, v1),
                             EnvItem(N_DB_PASSWORD, v2) >>, "plugin") >>

\* The values given to the variables: of the alphabet or not, one short of
\* the pattern's minimum or at it, and of the alphabet with a final newline.
TwinValues == {v \in ScanValues : v.in_class \/ ~v.nl}

TwinInputs ==
    { [a |-> Shaped(shape, v1, v2), b |-> Shaped(shape, w1, w2),
       allow_secrets |-> allow] :
         shape \in TwinShapes, v1 \in TwinValues, v2 \in TwinValues,
         w1 \in TwinValues, w2 \in TwinValues, allow \in BOOLEAN }

\* What the detector and the orchestrator give out for a configuration
\* (secret_detector.py 48-167, orchestrator.py 96-110).
ScanOutputs(mcp_servers, allow_secrets) ==
    LET detections == ScanMcpEnv(mcp_servers) IN
    [scan |-> [i \in 1..Len(mcp_servers) |-> Scan(mcp_servers[i].config.env)],
     scan_mcp_env |-> detections,
     format_warnings |-> FormatWarnings(detections),
     result |-> IF ShouldBlock(detections, allow_secrets)
                THEN BlockedResult(detections)
                ELSE EmptyMap]

ApplyScanToBoth ==
    /\ ~fnOut.done
    /\ fnOut' = [done |-> TRUE,
                 a |-> ScanOutputs(fnIn.a, fnIn.allow_secrets),
                 b |-> ScanOutputs(fnIn.b, fnIn.allow_secrets)]
    /\ UNCHANGED fnIn

(***************************************************************************)
(* SourceReader.get_mcp_servers_with_scope (source_reader.py 359-483).     *)
(* A dict of servers is the sequence of its items [name, value] in         *)
(* insertion order; a config is a dict of its keys.                        *)
(***************************************************************************)
\* The keys k of a plugin server's config for which k.startswith("_")
UnderscoreKeys == {"_plugin_name", "_plugin_version", "_source"}

\* config.get("command") or config.get("url")
HasCommandOrUrl(config) ==
    Get(config, "command", "") # "" \/ Get(config, "url", "") # ""

\* _get_user_scope_mcps, _get_project_scope_mcps, _get_local_scope_mcps: the
\* entries of the file's mcpServers that have a command or a url
ValidMcps(listed) ==
    FilterIdx(listed, {i \in 1..Len(listed) : HasCommandOrUrl(listed[i].value)}, 1)

\* if not self.project_dir: return {}
ProjectMcps(listed, project_dir) ==
    IF project_dir THEN ValidMcps(listed) ELSE << >>

\* name in servers
InServers(servers, name) == \E i \in 1..Len(servers) : servers[i].name = name

\* servers[name], for a name in servers
ServerAt(servers, name) ==
    servers[CHOOSE i \in 1..Len(servers) : servers[i].name = name].value

\* A mutant of line 452: a plugin's server replaces the user file's.
PluginAlwaysEnters(servers, name) == TRUE

\* Line 452: if name not in servers
PluginEnters(servers, name) == ~InServers(servers, name)

\* Lines 454-465: the entry made for a plugin's server
PluginEntry(config) ==
    [config |-> [k \in DOMAIN config \ UnderscoreKeys |-> config[k]],
     metadata |-> [scope |-> "user", source |-> "plugin",
                   plugin_name |-> Get(config, "_plugin_name", "unknown"),
                   plugin_version |-> Get(config, "_plugin_version", "unknown")]]

FileEntry(config, scope) ==
    [config |-> config, metadata |-> [scope |-> scope, source |-> "file"]]

\* for name, config in layer.items(): servers[name] = {...}
RECURSIVE AddFileLayer(_, _, _, _)
AddFileLayer(servers, layer, scope, i) ==
    IF i > Len(layer) THEN servers
    ELSE AddFileLayer(DictSet(servers, layer[i].name,
                              FileEntry(layer[i].value, scope)),
                      layer, scope, i + 1)

RECURSIVE AddPluginLayer(_, _, _)
AddPluginLayer(servers, layer, i) ==
    IF i > Len(layer) THEN servers
    ELSE AddPluginLayer(IF PluginEnters(servers, layer[i].name)
                        THEN DictSet(servers, layer[i].name,
                                     PluginEntry(layer[i].value))
                        ELSE servers,
                        layer, i + 1)

\* files: what ~/.claude.json (user, local), the plugins and the project's
\* .mcp.json list; project_dir: self.project_dir is set.
GetMcpServersWithScope(scope, project_dir, files) ==
    LET layer1 == IF scope \in {"user", "all"}
                  THEN AddFileLayer(<< >>, ValidMcps(files.user), "user", 1)
                  ELSE << >>
        layer2 == IF scope \in {"user", "all"}
                  THEN AddPluginLayer(layer1, files.plugin, 1)
                  ELSE layer1
        layer3 == IF scope \in {"project", "all"} /\ project_dir
                  THEN AddFileLayer(layer2,
                                    ProjectMcps(files.project, project_dir),
                                    "project", 1)
                  ELSE layer2
    IN  IF scope \in {"project", "all"} /\ project_dir
        THEN AddFileLayer(layer3, ProjectMcps(files.local, project_dir),
                          "local", 1)
        ELSE layer3

\* The configs the layers give to a server: each names its layer.
FileConfig(layer, valid) ==
    ("command" :> (IF valid THEN layer ELSE "")) @@ ("args" :> << >>)
PluginConfig(plugin_name, plugin_version) ==
    ("command" :> "plugin") @@ ("_plugin_name" :> plugin_name)
        @@ ("_plugin_version" :> plugin_version) @@ ("_source" :> "plugin")

\* What a file may list: the servers a and b, in either order; a's entry may
\* lack a command.
ListedBy(layer) ==
    LET a(valid) == [name |-> "a", value |-> FileConfig(layer, valid)]
        b == [name |-> "b", value |-> FileConfig(layer, TRUE)]
    IN  { << >>, <<b>> } \cup { <<a(v)>> : v \in BOOLEAN }
            \cup { <<a(v), b>> : v \in BOOLEAN }
            \cup { <<b, a(v)>> : v \in BOOLEAN }

\* What _get_plugin_mcp_servers may return (lines 277-357)
ListedByPlugins ==
    LET a == [name |-> "a", value |-> PluginConfig("plug", "1.0")]
        b == [name |-> "b", value |-> PluginConfig("grd", "2.0")]
    IN  { << >>, <<a>>, <<b>>, <<a, b>>, <<b, a>> }

LayerInputs ==
    [scope : {"all", "user", "project"}, project_dir : BOOLEAN,
     files : [user : ListedBy("user"), plugin : ListedByPlugins,
              project : ListedBy("project"), local : ListedBy("local")]]

ApplyGetMcpServersWithScope ==
    /\ ~fnOut.done
    /\ fnOut' = [done |-> TRUE,
                 servers |-> GetMcpServersWithScope(fnIn.scope, fnIn.project_dir,
                                                    fnIn.files)]
    /\ UNCHANGED fnIn

(***************************************************************************)
(* should_debounce (lock.py 63-83) and the entry points that call it       *)
(* before taking the lock (commands/sync.py 124-193, hooks/post_tool_use.py *)
(* 66-86). The stored last_sync is the second at which the isoformat       *)
(* string was written, or one of the values below.                         *)
(***************************************************************************)
\* DEBOUNCE_SECONDS = 3.0
DebounceSeconds == 3

\* The seconds the model's clock goes up to.
MaxTime == 5

\* last_sync values that are not isoformat strings: the empty string, a
\* string fromisoformat rejects (ValueError), a number (TypeError).
EmptyString == -1
NotADate == -2
ANumber == -3

\* datetime.fromisoformat(last_sync).timestamp(), or the exception caught
FromIsoFormat(last_sync) ==
    IF last_sync \in {NotADate, ANumber}
    THEN [raised |-> TRUE, timestamp |-> None]
    ELSE [raised |-> FALSE, timestamp |-> last_sync]

\* A mutant: elapsed <= debounce_seconds
ShouldDebounceInclusive(state, now) ==
    LET last_sync == Get(state, "last_sync", None) IN
    IF last_sync \in {None, EmptyString} THEN FALSE
    ELSE IF FromIsoFormat(last_sync).raised THEN FALSE
    ELSE now - FromIsoFormat(last_sync).timestamp <= DebounceSeconds

ShouldDebounce(state, now) ==
    LET last_sync == Get(state, "last_sync", None) IN
    IF last_sync \in {None, EmptyString} THEN FALSE
    ELSE IF FromIsoFormat(last_sync).raised THEN FALSE
    ELSE now - FromIsoFormat(last_sync).timestamp < DebounceSeconds

\* state.json when an entry point is invoked
DebounceFiles ==
    {MissingFile, CompleteFile(V2Doc)}
        \cup {CompleteFile([V2Doc EXCEPT !.last_sync = v]) :
                 v \in {EmptyString, NotADate, ANumber, MaxTime}}

\* state_manager = StateManager(); if should_debounce(state_manager): return
DebounceCheck(p) ==
    /\ lkPc[p] = "start"
    /\ ~fnOut[p].done
    /\ lkAttempts[p] < MaxAttempts
    /\ LET r == LoadResult(stateFile, bakCount, FALSE, FALSE)
           result == ShouldDebounce(r.state, clock)
       IN  /\ stateFile' = r.file
           /\ bakCount' = r.baks
           /\ fnIn' = [fnIn EXCEPT ![p] = [last_sync |-> Get(r.state, "last_sync", None),
                                           now |-> clock]]
           /\ fnOut' = [fnOut EXCEPT ![p] = [done |-> TRUE, result |-> result]]
           /\ lkPc' = [lkPc EXCEPT ![p] = IF result THEN "left" ELSE @]
           /\ lkAttempts' = [lkAttempts EXCEPT ![p] = IF result THEN @ + 1 ELSE @]
    /\ UNCHANGED <<clock, platform, lockHolders, lkSteps, lkFoundHeld>>

\* with sync_lock(LOCK_FILE_DEFAULT): reached when the check returned False
DebounceEnter(p) ==
    /\ fnOut[p].done
    /\ ~fnOut[p].result
    /\ LockEnter(p)
    /\ UNCHANGED <<stateVars, pureVars>>

\* A stage of the pipeline; the last one is _update_state, whose record_sync
\* writes last_sync.
DebounceStep(p) ==
    /\ LockedStep(p)
    /\ stateFile' = IF lkSteps'[p] = PipelineSteps
                    THEN SaveResult(stateFile,
                                    RecordSyncState(LoadResult(stateFile, bakCount,
                                                               FALSE, FALSE).state,
                                                    clock, "codex",
                                                    ("CLAUDE.md" :> HashOf(1)),
                                                    1, 0, 0, NoAccount),
                                    FALSE)
                    ELSE stateFile
    /\ UNCHANGED <<bakCount, clock, pureVars>>

DebounceExit(p) ==
    /\ LockExit(p)
    /\ UNCHANGED <<stateVars, pureVars>>

\* The next /sync command or hook event of the process
DebounceAgain(p) ==
    /\ LockAgain(p)
    /\ fnOut' = [fnOut EXCEPT ![p] = [done |-> FALSE, result |-> FALSE]]
    /\ UNCHANGED <<stateVars, fnIn>>

\* A second passes.
Tick ==
    /\ clock < MaxTime
    /\ clock' = clock + 1
    /\ UNCHANGED <<stateFile, bakCount, lockVars, pureVars>>

(***************************************************************************)
(* MCPServer (mcp/server.py): the main thread reads requests and handles   *)
(* tools/call in _handle_tools_call (86-161); the worker thread runs       *)
(* _sync_worker (51-84). The two threads share sync_queue, a               *)
(* queue.Queue(maxsize=1), and the attribute sync_in_progress, which no    *)
(* lock guards: every statement of one may run between two of the other.   *)
(***************************************************************************)
\* The number of tools/call requests a client sends.
MaxRequests == 3

Requests == 1..MaxRequests

\* queue.Queue(maxsize=1)
QueueSize == 1

Tools == {"sync_all", "get_status", "unknown"}

NotSent == [tool |-> "-", others |-> FALSE, outcome |-> "none",
            executed |-> FALSE, answered |-> FALSE]

ServerParked ==
    /\ srvQueue = << >>
    /\ srvFlag = FALSE
    /\ srvWorker = [pc |-> "get", req |-> 0]
    /\ srvMain = [pc |-> "read", req |-> 0]
    /\ srvLog = [r \in Requests |-> NotSent]

\* The handler of the request is running in the worker thread.
Executing(r) == srvWorker.req = r /\ srvWorker.pc = "handler"

\* The request is in the queue.
Pending(r) == \E i \in 1..Len(srvQueue) : srvQueue[i] = r

\* The worker has taken the request from the queue and has not begun its
\* handler yet.
Taken(r) == srvWorker.req = r /\ srvWorker.pc \in {"taken", "lock"}

\* Line 120: if self.sync_in_progress
FlagSeen(flag) == flag

\* _handle_tools_call up to the test of sync_in_progress (lines 86-137),
\* for the next request of the client.
MainHandle(r, tool, valid) ==
    /\ srvMain.pc = "read"
    /\ srvLog[r].outcome = "none"
    /\ \A q \in Requests : q < r => srvLog[q].outcome # "none"
    /\ LET others == \E q \in Requests : Pending(q) \/ Taken(q) \/ Executing(q)
           seen == [tool |-> tool, others |-> others, outcome |-> "none",
                    executed |-> FALSE, answered |-> FALSE]
       IN  IF tool = "unknown"
           THEN /\ srvLog' = [srvLog EXCEPT ![r] =
                                 [seen EXCEPT !.outcome = "error", !.answered = TRUE]]
                /\ UNCHANGED srvMain
           ELSE IF ~valid
           THEN /\ srvLog' = [srvLog EXCEPT ![r] =
                                 [seen EXCEPT !.outcome = "invalid", !.answered = TRUE]]
                /\ UNCHANGED srvMain
           ELSE IF tool = "get_status"
           THEN /\ srvLog' = [srvLog EXCEPT ![r] =
                                 [seen EXCEPT !.outcome = "status", !.answered = TRUE]]
                /\ UNCHANGED srvMain
           ELSE IF FlagSeen(srvFlag)
           THEN /\ srvLog' = [srvLog EXCEPT ![r] =
                                 [seen EXCEPT !.outcome = "busy", !.answered = TRUE]]
                /\ UNCHANGED srvMain
           ELSE /\ srvLog' = [srvLog EXCEPT ![r] = [seen EXCEPT !.outcome = "checked"]]
                /\ srvMain' = [pc |-> "put", req |-> r]
    /\ UNCHANGED <<srvQueue, srvFlag, srvWorker>>

\* Lines 139-161: self.sync_queue.put_nowait(...), or queue.Full
MainPut ==
    /\ srvMain.pc = "put"
    /\ IF Len(srvQueue) >= QueueSize
       THEN /\ srvLog' = [srvLog EXCEPT ![srvMain.req].outcome = "busy",
                                        ![srvMain.req].answered = TRUE]
            /\ UNCHANGED srvQueue
       ELSE /\ srvLog' = [srvLog EXCEPT ![srvMain.req].outcome = "queued"]
            /\ srvQueue' = Append(srvQueue, srvMain.req)
    /\ srvMain' = [pc |-> "read", req |-> 0]
    /\ UNCHANGED <<srvFlag, srvWorker>>

\* Line 54: request_id, tool_name, arguments = self.sync_queue.get()
WorkerGet ==
    /\ srvWorker.pc = "get"
    /\ srvQueue # << >>
    /\ srvWorker' = [pc |-> "taken", req |-> Head(srvQueue)]
    /\ srvQueue' = Tail(srvQueue)
    /\ UNCHANGED <<srvFlag, srvMain, srvLog>>

\* Line 55: self.sync_in_progress = True
WorkerSetFlag ==
    /\ srvWorker.pc = "taken"
    /\ srvFlag' = TRUE
    /\ srvWorker' = [srvWorker EXCEPT !.pc = "lock"]
    /\ UNCHANGED <<srvQueue, srvMain, srvLog>>

\* Lines 56-61: with sync_lock(): the handler begins, or BlockingIOError
\* when a /sync command or a hook holds the file lock (lines 62-71).
WorkerLock ==
    /\ srvWorker.pc = "lock"
    /\ \E held \in BOOLEAN :
          IF held
          THEN /\ srvWorker' = [srvWorker EXCEPT !.pc = "finally"]
               /\ UNCHANGED srvLog
          ELSE /\ srvWorker' = [srvWorker EXCEPT !.pc = "handler"]
               /\ srvLog' = [srvLog EXCEPT ![srvWorker.req].executed = TRUE]
    /\ UNCHANGED <<srvQueue, srvFlag, srvMain>>

\* The handler returns or raises (lines 61, 72-77).
WorkerHandlerEnds ==
    /\ srvWorker.pc = "handler"
    /\ srvWorker' = [srvWorker EXCEPT !.pc = "finally"]
    /\ UNCHANGED <<srvQueue, srvFlag, srvMain, srvLog>>

\* Lines 78-79: finally: self.sync_in_progress = False
WorkerFinally ==
    /\ srvWorker.pc = "finally"
    /\ srvFlag' = FALSE
    /\ srvWorker' = [srvWorker EXCEPT !.pc = "respond"]
    /\ UNCHANGED <<srvQueue, srvMain, srvLog>>

\* Lines 81-84: the response is written and the worker waits again.
WorkerRespond ==
    /\ srvWorker.pc = "respond"
    /\ srvLog' = [srvLog EXCEPT ![srvWorker.req].answered = TRUE]
    /\ srvWorker' = [pc |-> "get", req |-> 0]
    /\ UNCHANGED <<srvQueue, srvFlag, srvMain>>

(***************************************************************************)
(* The record calls of two StateManagers, with the call made last: what    *)
(* the caller held and what state.json held when the call was made.        *)
(***************************************************************************)
\* A version-2 document with target records and plugins sections, flat
\* and of an account.
FullDoc == [version |-> 2, last_sync |-> 1,
            targets |-> ("codex" :> OldTarget) @@ ("gemini" :> OldTarget),
            plugins |-> ("grd" :> [version |-> "1.0", mcp_count |-> 1]),
            accounts |-> ("work" :> [last_sync |-> 1,
                                    targets |-> ("codex" :> OldTarget)
                                                @@ ("gemini" :> OldTarget),
                                    plugins |-> ("plug" :> [version |-> "1.0",
                                                            mcp_count |-> 1])
                                                @@ ("grd" :> [version |-> "1.0",
                                                              mcp_count |-> 1])]
                          @@ ("home" :> [last_sync |-> 1,
                                         targets |-> ("codex" :> OldTarget),
                                         plugins |-> ("grd" :> [version |-> "1.0",
                                                                mcp_count |-> 1])]))]

\* state.json when the two StateManagers are constructed
CallFiles == {MissingFile, CompleteFile(LegacyDoc), CompleteFile(V1Doc),
              CompleteFile(FullDoc)}

\* The digests recorded in this specification
CallHashes == ("CLAUDE.md" :> HashOf(2)) @@ (".mcp.json" :> HashOf(1))

\* record_sync (188-252) of process p
CallRecordSync(p, target, account) ==
    /\ RecordSync(p, target, CallHashes, <<2, 1, 0>>, account)
    /\ fnOut' = [done |-> TRUE, op |-> "record_sync", p |-> p,
                 target |-> target, account |-> account, plugins |-> EmptyMap,
                 mem |-> mgr[p].state, disk |-> stateFile,
                 returned |-> Returned(p)]
    /\ UNCHANGED fnIn

\* record_plugin_sync (405-433) of process p
CallRecordPluginSync(p, plugins_metadata, account) ==
    /\ opCount < MaxOps
    /\ mgr[p].loaded
    /\ \E saveFails \in BOOLEAN :
          LET new == RecordPluginState(mgr[p].state, plugins_metadata, account) IN
          /\ mgr' = [mgr EXCEPT ![p].state = new]
          /\ stateFile' = SaveResult(stateFile, new, saveFails)
          /\ fnOut' = [done |-> TRUE, op |-> "record_plugin_sync", p |-> p,
                       target |-> "", account |-> account,
                       plugins |-> plugins_metadata,
                       mem |-> mgr[p].state, disk |-> stateFile,
                       returned |-> ~saveFails]
    /\ opCount' = opCount + 1
    /\ UNCHANGED <<bakCount, clock, lastLoad, v1Seen, fnIn>>

(***************************************************************************)
(* StateManager.detect_plugin_drift (state_manager.py 435-485).  A reason  *)
(* string is modelled as the tuple of its kind and the two values          *)
(* formatted into it; meta.get(key) is <<value>>, or << >> for None.       *)
(***************************************************************************)
MetaGet(meta, key) == IF Has(meta, key) THEN <<meta[key]>> ELSE << >>

\* A mutant of lines 478-482: the count is compared before the version.
ChangeReasonCountFirst(stored_meta, current_meta) ==
    LET current_version == MetaGet(current_meta, "version")
        stored_version == MetaGet(stored_meta, "version")
        current_count == MetaGet(current_meta, "mcp_count")
        stored_count == MetaGet(stored_meta, "mcp_count")
    IN  IF current_count # stored_count
        THEN <<"mcp_count_changed", stored_count, current_count>>
        ELSE IF current_version # stored_version
        THEN <<"version_changed", stored_version, current_version>>
        ELSE << >>

\* Lines 471-482: the reason for a plugin that is stored and current;
\* << >> when no reason is set.
ChangeReason(stored_meta, current_meta) ==
    LET current_version == MetaGet(current_meta, "version")
        stored_version == MetaGet(stored_meta, "version")
        current_count == MetaGet(current_meta, "mcp_count")
        stored_count == MetaGet(stored_meta, "mcp_count")
    IN  IF current_version # stored_version
        THEN <<"version_changed", stored_version, current_version>>
        ELSE IF current_count # stored_count
        THEN <<"mcp_count_changed", stored_count, current_count>>
        ELSE << >>

\* Lines 450-457: the stored plugins of the account, or the flat section
StoredPlugins(state, account) ==
    IF account # NoAccount
    THEN LET account_state == Get(Get(state, "accounts", EmptyMap), account, EmptyMap)
         IN  IF DOMAIN account_state = {} THEN EmptyMap
             ELSE Get(account_state, "plugins", EmptyMap)
    ELSE Get(state, "plugins", EmptyMap)

\* Lines 459-484: the drift dict
DetectPluginDrift(state, current_plugins, account) ==
    LET stored_plugins == StoredPlugins(state, account)
        removed == DOMAIN stored_plugins \ DOMAIN current_plugins
        added == DOMAIN current_plugins \ DOMAIN stored_plugins
        changed == {n \in DOMAIN current_plugins \cap DOMAIN stored_plugins :
                       ChangeReason(stored_plugins[n], current_plugins[n]) # << >>}
    IN  [n \in removed \cup added \cup changed |->
            IF n \in removed THEN <<"removed">>
            ELSE IF n \in added THEN <<"added">>
            ELSE ChangeReason(stored_plugins[n], current_plugins[n])]

\* The plugin metadata the model draws: a version and a count, either of
\* which may be missing from the record.
PluginNames == {"plug", "grd"}

PluginMetas ==
    {[version |-> v, mcp_count |-> c] : v \in {"1.0", "2.0"}, c \in {1, 2}}
        \cup {[mcp_count |-> c] : c \in {1, 2}}
        \cup {[version |-> "1.0"]}

PluginDicts ==
    UNION {[names -> PluginMetas] : names \in SUBSET PluginNames}

\* detect_plugin_drift applied to the drawn state and current plugins
ApplyDetectPluginDrift ==
    /\ ~fnOut.done
    /\ fnOut' = [done |-> TRUE,
                 drift |-> DetectPluginDrift(fnIn.state, fnIn.current_plugins,
                                             fnIn.account),
                 state |-> fnIn.state]
    /\ UNCHANGED fnIn

(***************************************************************************)
(* SyncResult.merge (adapters/result.py 34-51)                             *)
(***************************************************************************)
\* A mutant of merge: the adapted counter of the other result is dropped.
mergeWithoutAdapted(self, other) ==
    [synced |-> self.synced + other.synced,
     skipped |-> self.skipped + other.skipped,
     failed |-> self.failed + other.failed,
     adapted |-> self.adapted,
     synced_files |-> self.synced_files \o other.synced_files,
     skipped_files |-> self.skipped_files \o other.skipped_files,
     failed_files |-> self.failed_files \o other.failed_files]

\* The new SyncResult merge returns
merge(self, other) ==
    [synced |-> self.synced + other.synced,
     skipped |-> self.skipped + other.skipped,
     failed |-> self.failed + other.failed,
     adapted |-> self.adapted + other.adapted,
     synced_files |-> self.synced_files \o other.synced_files,
     skipped_files |-> self.skipped_files \o other.skipped_files,
     failed_files |-> self.failed_files \o other.failed_files]

\* The results the model draws: file lists of at most one path, and
\* counters that count the listed files and, for synced, one item more.
MergeOperands ==
    {[synced |-> Len(sf) + extra, skipped |-> Len(kf), failed |-> Len(ff),
      adapted |-> ad, synced_files |-> sf, skipped_files |-> kf,
      failed_files |-> ff] :
        sf \in {<< >>, <<"a.md">>, <<"b.md">>},
        kf \in {<< >>, <<"s.md">>},
        ff \in {<< >>, <<"f.md: error">>},
        ad \in 0..1, extra \in 0..1}

\* merge applied to the drawn results, in the groupings and the order the
\* laws compare; the operands are read again after the calls.
ApplyMerge ==
    /\ ~fnOut.done
    /\ fnOut' = [done |-> TRUE,
                 ab |-> merge(fnIn.a, fnIn.b),
                 ba |-> merge(fnIn.b, fnIn.a),
                 ab_c |-> merge(merge(fnIn.a, fnIn.b), fnIn.c),
                 a_bc |-> merge(fnIn.a, merge(fnIn.b, fnIn.c)),
                 a |-> fnIn.a, b |-> fnIn.b, c |-> fnIn.c]
    /\ UNCHANGED fnIn

(***************************************************************************)
(* SourceReader.get_source_paths (source_reader.py 561-636) and the        *)
(* hashing of the paths in _update_state (orchestrator.py 352-361), over a *)
(* source tree: path -> [kind, content], kind being "missing", "file",     *)
(* "unreadable" (a file whose read fails) or "dir".                        *)
(***************************************************************************)
\* The candidate paths of each config type, in the order they are tested
SourceCandidates ==
    [rules |-> <<"~/.claude/CLAUDE.md", "CLAUDE.md">>,
     skills |-> <<"~/.claude/skills/review">>,
     agents |-> <<"~/.claude/agents/a.md">>,
     commands |-> <<"~/.claude/commands/c.md">>,
     mcp_servers |-> <<".mcp.json">>,
     settings |-> <<"~/.claude/settings.json">>]

ConfigTypes == <<"rules", "skills", "agents", "commands", "mcp_servers", "settings">>

\* Whether a candidate is found: rules, MCP and settings files by exists()
\* (lines 587-634), skills by d.is_dir() (get_skills), agents and commands
\* by f.is_file() (get_agents, get_commands).
Found(config_type, entry) ==
    CASE config_type = "skills" -> entry.kind = "dir"
      [] config_type \in {"agents", "commands"} -> entry.kind \in {"file", "unreadable"}
      [] OTHER -> entry.kind # "missing"

GetSourcePaths(tree) ==
    [ct \in DOMAIN SourceCandidates |->
        FilterIdx(SourceCandidates[ct],
                  {i \in 1..Len(SourceCandidates[ct]) :
                      Found(ct, tree[SourceCandidates[ct][i]])}, 1)]

\* hash_file_sha256 (utils/hashing.py 13-48): the digest of the content,
\* the empty string when the file cannot be read
HashFile(entry) ==
    IF entry.kind = "file" THEN HashOf(entry.content) ELSE NoHash

\* p.is_file()
IsFile(entry) == entry.kind \in {"file", "unreadable"}

\* for config_type, paths in source_paths.items(): for p in paths
PathsIn(source_paths) ==
    UNION {{source_paths[ct][i] : i \in 1..Len(source_paths[ct])} :
              ct \in DOMAIN source_paths}

\* A mutant of lines 359-361: the digest is stored whatever it is.
FileHashesUnguarded(source_paths, tree) ==
    LET hashed == {p \in DOMAIN tree :
                      /\ p \in PathsIn(source_paths)
                      /\ IsFile(tree[p])}
    IN  [p \in hashed |-> HashFile(tree[p])]

\* Lines 354-361: file_hashes
FileHashes(source_paths, tree) ==
    LET hashed == {p \in DOMAIN tree :
                      /\ p \in PathsIn(source_paths)
                      /\ IsFile(tree[p])
                      /\ HashFile(tree[p]) # NoHash}
    IN  [p \in hashed |-> HashFile(tree[p])]

\* Lines 363-390: record_sync for every target of the results, in the
\* order of the results, with the same file_hashes.
RECURSIVE RecordAll(_, _, _, _, _, _)
RecordAll(state, synced_targets, file_hashes, now, account, n) ==
    IF n = 0 THEN state
    ELSE LET before == RecordAll(state, synced_targets, file_hashes, now, account, n - 1)
         IN  IF TargetOrder[n] \notin synced_targets THEN before
             ELSE RecordSyncState(before, now, TargetOrder[n], file_hashes,
                                  1, 0, 0, account)

\* The source trees the model draws: the entries a candidate path may be
SourceEntries(path) ==
    CASE path = "~/.claude/CLAUDE.md" ->
            {[kind |-> "missing", content |-> 0], [kind |-> "file", content |-> 1],
             [kind |-> "file", content |-> 2], [kind |-> "unreadable", content |-> 1]}
      [] path = "~/.claude/skills/review" ->
            {[kind |-> "missing", content |-> 0], [kind |-> "dir", content |-> 0]}
      [] path = "~/.claude/settings.json" ->
            {[kind |-> "missing", content |-> 0], [kind |-> "file", content |-> 1],
             [kind |-> "unreadable", content |-> 1]}
      [] OTHER ->
            {[kind |-> "missing", content |-> 0], [kind |-> "file", content |-> 1]}

SourcePaths ==
    UNION {{SourceCandidates[ct][i] : i \in 1..Len(SourceCandidates[ct])} :
              ct \in DOMAIN SourceCandidates}

SourceTrees ==
    {tree \in [SourcePaths -> UNION {SourceEntries(p) : p \in SourcePaths}] :
        \A p \in SourcePaths : tree[p] \in SourceEntries(p)}

\* _update_state applied to the drawn tree: the paths discovered, and the
\* state after the record_sync calls
ApplyUpdateState ==
    /\ ~fnOut.done
    /\ LET source_paths == GetSourcePaths(fnIn.tree) IN
       fnOut' = [done |-> TRUE,
                 source_paths |-> source_paths,
                 state |-> RecordAll(fnIn.state, fnIn.synced_targets,
                                     FileHashes(source_paths, fnIn.tree),
                                     clock, fnIn.account, Len(TargetOrder))]
    /\ UNCHANGED fnIn

(***************************************************************************)
(* SourceReader over source files that may be bad (source_reader.py).  A   *)
(* file is "missing", "unreadable", "corrupt" (not JSON), "not_object"     *)
(* (JSON that is no object: a list, a string, null) or "object"; an object *)
(* declares the one server of its file.  A call returns [raised, servers]. *)
(***************************************************************************)
JsonFiles == {"registry", "settings", "claude_json", "proj_mcp", "plugin_mcp",
              "plugin_json"}

JsonKinds == {"missing", "unreadable", "corrupt", "not_object", "object"}

\* read_json_safe (utils/paths.py 139-160) of a file that exists or not:
\* the default {} for a missing, unreadable or corrupt file, and whatever
\* json.load returns otherwise.
ReadJson(kind) ==
    CASE kind \in {"missing", "unreadable", "corrupt"} -> [is_dict |-> TRUE, empty |-> TRUE]
      [] kind = "not_object" -> [is_dict |-> FALSE, empty |-> FALSE]
      [] kind = "object" -> [is_dict |-> TRUE, empty |-> FALSE]

Returns(servers) == [raised |-> FALSE, servers |-> servers]

\* AttributeError: the value has no attribute 'get'
RaisesAttributeError == [raised |-> TRUE, servers |-> {}]

\* data = read_json_safe(path); data.get(key, {}) of a file that exists:
\* the servers of an object, none of the default, an error otherwise.
GetOf(kind, servers) ==
    LET data == ReadJson(kind) IN
    IF ~data.is_dict THEN RaisesAttributeError
    ELSE Returns(IF data.empty THEN {} ELSE servers)

\* _get_user_scope_mcps (361-374) and _get_local_scope_mcps (396-425)
UserScopeMcps(tree) ==
    IF tree["claude_json"] = "missing" THEN Returns({})
    ELSE GetOf(tree["claude_json"], {"u"})

\* _get_project_scope_mcps (376-394)
ProjectScopeMcps(tree) ==
    IF tree["proj_mcp"] = "missing" THEN Returns({})
    ELSE GetOf(tree["proj_mcp"], {"p"})

\* _get_plugin_mcp_servers (277-357): the registry lists one plugin, whose
\* install path exists.
PluginMcpServers(tree) ==
    IF tree["registry"] = "missing" THEN Returns({})
    ELSE LET registry == GetOf(tree["registry"], {"plug"})
             settings == IF tree["settings"] = "missing" THEN Returns({})
                         ELSE GetOf(tree["settings"], {})
             \* line 326-332: isinstance(data, dict) is tested
             standalone == IF ReadJson(tree["plugin_mcp"]).is_dict
                              /\ ~ReadJson(tree["plugin_mcp"]).empty
                           THEN {"m"} ELSE {}
             inline == IF tree["plugin_json"] = "missing" THEN Returns({})
                       ELSE GetOf(tree["plugin_json"], {"i"})
         IN  IF registry.raised \/ settings.raised THEN RaisesAttributeError
             ELSE IF registry.servers = {} THEN Returns({})
             ELSE IF inline.raised THEN RaisesAttributeError
             ELSE Returns(standalone \cup inline.servers)

\* get_skills (98-170): the registry is read for the skills of plugins
GetSkills(tree) ==
    IF tree["registry"] = "missing" THEN Returns({})
    ELSE GetOf(tree["registry"], {})

\* discover_all (541-559): the scoped MCP servers and the other accessors;
\* get_settings tests isinstance of what it reads (520-537).
DiscoverAll(tree) ==
    LET calls == {UserScopeMcps(tree), PluginMcpServers(tree),
                  ProjectScopeMcps(tree), GetSkills(tree)}
    IN  IF \E c \in calls : c.raised THEN RaisesAttributeError
        ELSE Returns(UNION {c.servers : c \in calls})

\* discover_all and get_source_paths applied to the drawn files
ApplyDiscoverAll ==
    /\ ~fnOut.done
    /\ fnOut' = [done |-> TRUE,
                 discover_all |-> DiscoverAll(fnIn),
                 get_source_paths |-> GetSkills(fnIn)]
    /\ UNCHANGED fnIn

(***************************************************************************)
(* AdapterRegistry (adapters/registry.py).  A class is [is_subclass,       *)
(* implemented]: whether it inherits from AdapterBase, and the abstract    *)
(* methods of AdapterBase (adapters/base.py 46-134) it defines.            *)
(***************************************************************************)
RequiredOperations == Operations \ {"sync_mcp_scoped"}

AbstractMethods == RequiredOperations \cup {"target_name"}

\* The classes the model registers: complete ones, ones that lack one of
\* the abstract methods, and ones that define none.
AdapterClasses ==
    [is_subclass : BOOLEAN,
     implemented : {AbstractMethods, {}}
                       \cup {AbstractMethods \ {m} : m \in AbstractMethods}]

RegistryKeys == {"codex", "gemini"}

\* Lines 51-54: the decorator raises TypeError
RegisterRaises(adapter_class) == ~adapter_class.is_subclass

\* register(target_name)(adapter_class) (37-63)
Register(target_name, adapter_class) ==
    /\ IF RegisterRaises(adapter_class)
       THEN UNCHANGED rnRegistry
       ELSE rnRegistry' = Put(rnRegistry, target_name, adapter_class)
    /\ fnOut' = [done |-> TRUE, op |-> "register", target_name |-> target_name,
                 adapter_class |-> adapter_class, before |-> rnRegistry,
                 outcome |-> IF RegisterRaises(adapter_class)
                             THEN "TypeError" ELSE "registered"]
    /\ UNCHANGED <<fnIn, rnCfg, rnServers, rnSrc, rnPc, rnMem, rnDetections,
                   rnConflicts, rnBackupMgr, rnResults, rnIdx, rnTargetFiles,
                   rnBackups, rnLog, rnAtNew, rnAtCall>>

\* get_adapter (65-86): ValueError for a key that is not registered;
\* adapter_class(project_dir) raises TypeError for a class with abstract
\* methods left (abc).
GetAdapterOutcome(adapters, target_name) ==
    IF ~Has(adapters, target_name) THEN "ValueError"
    ELSE IF adapters[target_name].implemented # AbstractMethods THEN "TypeError"
    ELSE "instance"

GetAdapter(target_name) ==
    /\ fnOut' = [done |-> TRUE, op |-> "get_adapter", target_name |-> target_name,
                 adapter_class |-> Get(rnRegistry, target_name, None),
                 before |-> rnRegistry,
                 outcome |-> GetAdapterOutcome(rnRegistry, target_name)]
    /\ UNCHANGED <<fnIn, runVars>>

\* list_targets (88-95): the registered keys (sorted)
ListTargets(adapters) == DOMAIN adapters

PureParked ==
    /\ fnIn = EmptyMap
    /\ fnOut = [done |-> FALSE]

RecParked ==
    recorded = [targets |-> EmptyMap, plugins |-> EmptyMap,
                writers |-> {}, failed |-> FALSE]

TwiceParked ==
    rnPrev = [runs |-> 1, edited |-> FALSE, changed |-> FALSE, state |-> EmptyMap,
              pending |-> NoEdit, hand |-> NoEdit]

HistParked ==
    /\ RecParked
    /\ TwiceParked
    /\ ServerParked

ExtraParked ==
    /\ PureParked
    /\ HistParked

SaveParked ==
    /\ svPc = "idle"
    /\ svState = FreshState
    /\ svOld = MissingFile
    /\ tmpFile = MissingFile
    /\ svBuf = FALSE
    /\ svClosed = TRUE
    /\ svCount = 0

MgrParked ==
    /\ mgr = [p \in Procs |-> [loaded |-> FALSE, state |-> FreshState]]
    /\ lastLoad = [valid |-> FALSE, before |-> MissingFile,
                   state |-> FreshState, after |-> MissingFile]
    /\ v1Seen = [seen |-> FALSE, doc |-> EmptyMap]
    /\ opCount = 0

InitSave ==
    /\ stateFile \in {MissingFile} \cup {CompleteFile(d) : d \in InitialDocs}
    /\ bakCount = 0
    /\ clock = 2
    /\ SaveParked
    /\ MgrParked
    /\ LockParked
    /\ BackupParked
    /\ AdapterParked
    /\ RunParked
    /\ ExtraParked

NextSave ==
    \/ /\ \E d \in InitialDocs : SaveOpen(d)
       /\ UNCHANGED <<bakCount, clock, mgrVars, lockVars, backupVars, adapterVars, runVars, extraVars>>
    \/ /\ SaveDump
       /\ UNCHANGED <<bakCount, clock, mgrVars, lockVars, backupVars, adapterVars, runVars, extraVars>>
    \/ /\ SaveFlush
       /\ UNCHANGED <<bakCount, clock, mgrVars, lockVars, backupVars, adapterVars, runVars, extraVars>>
    \/ /\ SaveFsync
       /\ UNCHANGED <<bakCount, clock, mgrVars, lockVars, backupVars, adapterVars, runVars, extraVars>>
    \/ /\ SaveClose
       /\ UNCHANGED <<bakCount, clock, mgrVars, lockVars, backupVars, adapterVars, runVars, extraVars>>
    \/ /\ SaveReplace
       /\ UNCHANGED <<bakCount, clock, mgrVars, lockVars, backupVars, adapterVars, runVars, extraVars>>
    \/ /\ SaveCrash
       /\ UNCHANGED <<bakCount, clock, mgrVars, lockVars, backupVars, adapterVars, runVars, extraVars>>
    \/ /\ SaveReturn
       /\ UNCHANGED <<bakCount, clock, mgrVars, lockVars, backupVars, adapterVars, runVars, extraVars>>

SpecSave == InitSave /\ [][NextSave]_vars

InitState ==
    /\ stateFile \in InitialFiles
    /\ bakCount = 0
    /\ clock = 2
    /\ SaveParked
    /\ MgrParked
    /\ LockParked
    /\ BackupParked
    /\ AdapterParked
    /\ RunParked
    /\ ExtraParked

NextState ==
    \/ /\ \E p \in Procs : Construct(p)
       /\ UNCHANGED <<saveVars, lockVars, backupVars, adapterVars, runVars, extraVars>>
    \/ /\ \E p \in Procs, t \in SyncTargets, h \in HashMaps,
             c \in CountCases, a \in SyncAccounts : RecordSync(p, t, h, c, a)
       /\ UNCHANGED <<saveVars, lockVars, backupVars, adapterVars, runVars, extraVars>>

SpecState == InitState /\ [][NextState]_vars

InitLock ==
    /\ stateFile = MissingFile
    /\ bakCount = 0
    /\ clock = 2
    /\ SaveParked
    /\ MgrParked
    /\ platform \in {"posix", "win32"}
    /\ lockHolders = {}
    /\ lkPc = [p \in LockProcs |-> "start"]
    /\ lkSteps = [p \in LockProcs |-> 0]
    /\ lkFoundHeld = [p \in LockProcs |-> FALSE]
    /\ lkAttempts = [p \in LockProcs |-> 0]
    /\ BackupParked
    /\ AdapterParked
    /\ RunParked
    /\ ExtraParked

NextLock ==
    \/ /\ \E p \in LockProcs : LockEnter(p)
       /\ UNCHANGED <<stateVars, saveVars, mgrVars, backupVars, adapterVars, runVars, extraVars>>
    \/ /\ \E p \in LockProcs : LockedStep(p)
       /\ UNCHANGED <<stateVars, saveVars, mgrVars, backupVars, adapterVars, runVars, extraVars>>
    \/ /\ \E p \in LockProcs : LockExit(p)
       /\ UNCHANGED <<stateVars, saveVars, mgrVars, backupVars, adapterVars, runVars, extraVars>>
    \/ /\ \E p \in LockProcs : LockAgain(p)
       /\ UNCHANGED <<stateVars, saveVars, mgrVars, backupVars, adapterVars, runVars, extraVars>>

SpecLock == InitLock /\ [][NextLock]_vars

Inside == {p \in LockProcs : lkPc[p] = "inside"}

\* C5 as claimed: at most one process is inside the guarded block; a process
\* that finds the lock held is refused at once and runs no part of the pipeline.
C5_MutualExclusion ==
    /\ Cardinality(Inside) <= 1
    /\ \A p \in LockProcs :
          /\ (lkPc[p] \in {"inside", "left", "refused"} /\ lkFoundHeld[p])
                => lkPc[p] = "refused"
          /\ lkPc[p] = "refused" => lkSteps[p] = 0

\* C5 amended: the same on every platform but win32, where sync_lock takes
\* no lock.
C5_MutualExclusionOffWindows ==
    platform # "win32" =>
        /\ Cardinality(Inside) <= 1
        /\ \A p \in LockProcs :
              /\ (lkPc[p] \in {"inside", "left", "refused"} /\ lkFoundHeld[p])
                    => lkPc[p] = "refused"
              /\ lkPc[p] = "refused" => lkSteps[p] = 0

\* One process is inside the block with pipeline steps made while another
\* has been refused.
C5_Witness ==
    /\ platform = "posix"
    /\ \E p, q \in LockProcs :
          /\ lkPc[p] = "inside" /\ lkSteps[p] > 0
          /\ lkPc[q] = "refused" /\ lkFoundHeld[q]

InitBackup ==
    /\ stateFile = MissingFile
    /\ bakCount = 0
    /\ clock = 2
    /\ SaveParked
    /\ MgrParked
    /\ LockParked
    /\ bkFiles \in [Originals -> 0..1]
    /\ bkStore = EmptyMap
    /\ bkSecond = 0
    /\ bkEntries = << >>
    /\ bkPc = "open"
    /\ bkTodo = << >>
    /\ bkLog = << >>
    /\ bkAtExit = bkFiles
    /\ AdapterParked
    /\ RunParked
    /\ ExtraParked

NextBackup ==
    \/ /\ \E o \in Originals : BackupAndRegister(o)
       /\ UNCHANGED <<stateVars, saveVars, mgrVars, lockVars, adapterVars, runVars, extraVars>>
    \/ /\ BackupTick
       /\ UNCHANGED <<stateVars, saveVars, mgrVars, lockVars, adapterVars, runVars, extraVars>>
    \/ /\ \E o \in Originals, c \in 1..MaxContent : SyncWrite(o, c)
       /\ UNCHANGED <<stateVars, saveVars, mgrVars, lockVars, adapterVars, runVars, extraVars>>
    \/ /\ ContextExitNormal
       /\ UNCHANGED <<stateVars, saveVars, mgrVars, lockVars, adapterVars, runVars, extraVars>>
    \/ /\ ContextExitException
       /\ UNCHANGED <<stateVars, saveVars, mgrVars, lockVars, adapterVars, runVars, extraVars>>
    \/ /\ \E restoreFails \in BOOLEAN : RollbackEntry(restoreFails)
       /\ UNCHANGED <<stateVars, saveVars, mgrVars, lockVars, adapterVars, runVars, extraVars>>
    \/ /\ RollbackDone
       /\ UNCHANGED <<stateVars, saveVars, mgrVars, lockVars, adapterVars, runVars, extraVars>>

SpecBackup == InitBackup /\ [][NextBackup]_vars

\* The index of the earliest entry registered for original o.
EarliestEntry(o) ==
    CHOOSE i \in 1..Len(bkEntries) :
        /\ bkEntries[i][2] = o
        /\ \A j \in 1..(i - 1) : bkEntries[j][2] # o

Registered == {bkEntries[i][2] : i \in 1..Len(bkEntries)}

\* The outcome rollback logged for the entry registered i-th (it is the
\* (Len - i + 1)-th processed).
RestoredOk(i) == bkLog[Len(bkEntries) + 1 - i].restored

\* C8 as claimed: after an exception every registered entry has been
\* restored, in reverse order of registration, so each registered original
\* holds the content of its earliest backup, and the exception propagates;
\* after a normal exit nothing has been restored.
C8_RollbackRestoresAll ==
    /\ bkPc = "propagated" =>
          /\ [i \in 1..Len(bkLog) |-> bkLog[i].entry] = Reverse(bkEntries)
          /\ \A i \in 1..Len(bkLog) : bkLog[i].restored
          /\ \A o \in Registered : bkFiles[o] = bkStore[bkEntries[EarliestEntry(o)][1]]
    /\ bkPc = "exited" => (bkLog = << >> /\ bkFiles = bkAtExit)

\* C8 amended: after an exception every registered entry has been processed,
\* in reverse order of registration, and each registered original whose
\* earliest backup was restored successfully holds that backup's content;
\* the exception propagates; after a normal exit nothing has been restored.
C8_RollbackReverseOrder ==
    /\ bkPc = "propagated" =>
          /\ [i \in 1..Len(bkLog) |-> bkLog[i].entry] = Reverse(bkEntries)
          /\ \A o \in Registered :
                RestoredOk(EarliestEntry(o)) =>
                    bkFiles[o] = bkStore[bkEntries[EarliestEntry(o)][1]]
    /\ bkPc = "exited" => (bkLog = << >> /\ bkFiles = bkAtExit)

\* An original was registered twice with different backups, then written,
\* and the rollback restored the content of the earlier backup.
C8_Witness ==
    /\ bkPc = "propagated"
    /\ \E i, j \in 1..Len(bkEntries) :
          /\ i < j
          /\ bkEntries[i][2] = bkEntries[j][2]
          /\ bkStore[bkEntries[i][1]] # bkStore[bkEntries[j][1]]
          /\ RestoredOk(i) /\ RestoredOk(j)
          /\ bkAtExit[bkEntries[i][2]] # bkStore[bkEntries[i][1]]
          /\ bkFiles[bkEntries[i][2]] = bkStore[bkEntries[i][1]]

InitAdapter ==
    /\ stateFile = MissingFile
    /\ bakCount = 0
    /\ clock = 2
    /\ SaveParked
    /\ MgrParked
    /\ LockParked
    /\ BackupParked
    /\ adBeh \in [Operations -> Outcomes]
    /\ adScoped \in BOOLEAN
    /\ adIdx = 1
    /\ adResults = EmptyMap
    /\ adCalls = << >>
    /\ adEscaped = FALSE
    /\ RunParked
    /\ ExtraParked

NextAdapter ==
    /\ AdapterCategoryStep
    /\ UNCHANGED <<stateVars, saveVars, mgrVars, lockVars, backupVars, runVars, extraVars>>

SpecAdapter == InitAdapter /\ [][NextAdapter]_vars

\* C3: sync_all returns exactly the six keys, having invoked the category
\* operations in the fixed order (for mcp one of sync_mcp_scoped, sync_mcp);
\* a category whose operation raised maps to failed=1, synced=skipped=0, the
\* later categories were still invoked, and no exception left sync_all.
C3_SyncAllIsolatesCategories ==
    LET done == adIdx - 1
        order == <<"sync_rules", "sync_skills", "sync_agents", "sync_commands",
                   IF adScoped THEN "sync_mcp_scoped" ELSE "sync_mcp",
                   "sync_settings">>
    IN
    /\ ~adEscaped
    /\ adCalls = SubSeq(order, 1, done)
    /\ DOMAIN adResults = {Categories[i] : i \in 1..done}
    /\ \A i \in 1..done :
          IF adBeh[order[i]].raises
          THEN /\ adResults[Categories[i]].failed = 1
               /\ adResults[Categories[i]].synced = 0
               /\ adResults[Categories[i]].skipped = 0
          ELSE adResults[Categories[i]] = adBeh[order[i]].result
    /\ done = 6 =>
          DOMAIN adResults = {"rules", "skills", "agents", "commands", "mcp", "settings"}

\* sync_all has returned after sync_mcp raised and the later sync_settings
\* call went through.
C3_Witness ==
    /\ adIdx = Len(Categories) + 1
    /\ ~adScoped
    /\ adBeh["sync_mcp"].raises
    /\ adResults["mcp"].failed = 1
    /\ ~adBeh["sync_settings"].raises
    /\ adResults["settings"] = adBeh["sync_settings"].result

\* The version a reader of state.json finds (0: none).
FileVersion(f) == Get(ReadJsonSafe(f), "version", 0)

\* C10 as claimed: constructing a StateManager on any version-1 document
\* yields version 2 with accounts.default.targets equal to the flat targets,
\* persists it during the load, and every later load finds version 2.
C10_V1MigratesToDefaultAccount ==
    /\ (lastLoad.valid /\ FileVersion(lastLoad.before) = 1) =>
          /\ lastLoad.state.version = 2
          /\ Has(lastLoad.state.accounts, "default")
          /\ lastLoad.state.accounts["default"].targets
                = Get(lastLoad.before.doc, "targets", EmptyMap)
          /\ lastLoad.after = CompleteFile(lastLoad.state)
    /\ v1Seen.seen => FileVersion(stateFile) = 2

\* C10 amended: the same for a version-1 document without an accounts key;
\* the default account exists only when the flat targets are non-empty, and
\* the accounts map is empty otherwise.
C10_V1MigrationAmended ==
    /\ (lastLoad.valid /\ FileVersion(lastLoad.before) = 1
            /\ ~Has(lastLoad.before.doc, "accounts")) =>
          LET flat == Get(lastLoad.before.doc, "targets", EmptyMap) IN
          /\ lastLoad.state.version = 2
          /\ IF DOMAIN flat # {}
             THEN /\ Has(lastLoad.state.accounts, "default")
                  /\ lastLoad.state.accounts["default"].targets = flat
             ELSE lastLoad.state.accounts = EmptyMap
          /\ Get(lastLoad.state, "targets", EmptyMap) = flat
          /\ lastLoad.after = CompleteFile(lastLoad.state)
    /\ (v1Seen.seen /\ ~Has(v1Seen.doc, "accounts")) => FileVersion(stateFile) = 2

\* A version-1 document with targets was migrated, and a later construction
\* read the persisted version-2 document.
C10_Witness ==
    /\ v1Seen.seen
    /\ ~Has(v1Seen.doc, "accounts")
    /\ DOMAIN Get(v1Seen.doc, "targets", EmptyMap) # {}
    /\ lastLoad.valid
    /\ FileVersion(lastLoad.before) = 2
    /\ Has(lastLoad.state.accounts, "default")

\* C6: at every point of _save, a failure or a crash included, state.json
\* holds the complete previous document or the complete new one; and when
\* _save has raised, the temporary file is gone and state.json is unchanged.
C6_AtomicSaveAndCleanup ==
    /\ svPc # "idle" =>
          \/ stateFile = svOld
          \/ stateFile = CompleteFile(svState)
    /\ svPc = "raised" => (~tmpFile.exists /\ stateFile = svOld)

\* The part of C6 that the code keeps: readers never see a partial state.json.
C6_NoPartialState ==
    svPc # "idle" => (stateFile = svOld \/ stateFile = CompleteFile(svState))

\* A failed flush has left the temporary file behind.
C6_Witness == svPc = "raised" /\ tmpFile.exists /\ stateFile = svOld

(***************************************************************************)
(* SpecRun: one run of the orchestrator, from construction to the return   *)
(* of sync_all, in every environment of the sets above.                    *)
(***************************************************************************)
InitRun ==
    /\ stateFile \in RunFiles
    /\ bakCount = 0
    /\ clock = 2
    /\ SaveParked
    /\ MgrParked
    /\ LockParked
    /\ BackupParked
    /\ AdapterParked
    /\ rnCfg \in [dry_run : BOOLEAN, allow_secrets : BOOLEAN,
                  account : {NoAccount, "work"}]
    /\ rnRegistry \in Registries
    /\ rnServers \in ServerConfigs
    /\ rnSrc \in {f \in [Paths -> {0, 1, 2}] :
                     f[".mcp.json"] = IF rnServers = << >> THEN 0 ELSE 1}
    /\ rnPc = "new"
    /\ rnMem = FreshState
    /\ rnDetections = << >>
    /\ rnConflicts = EmptyMap
    /\ rnBackupMgr = FALSE
    /\ rnResults = EmptyMap
    /\ rnIdx = 1
    /\ rnTargetFiles = [t \in Targets |-> 0]
    /\ rnBackups \in {NoBackups, [NoBackups EXCEPT !["codex"] = KeepCount + 1]}
    /\ rnLog = << >>
    /\ rnAtNew = Snapshot
    /\ rnAtCall = Snapshot
    /\ ExtraParked

NextRun ==
    \/ /\ RunConstruct
       /\ UNCHANGED <<saveVars, mgrVars, lockVars, backupVars, adapterVars, extraVars>>
    \/ /\ RunSecretScan
       /\ UNCHANGED <<saveVars, mgrVars, lockVars, backupVars, adapterVars, extraVars>>
    \/ /\ RunConflictScan
       /\ UNCHANGED <<saveVars, mgrVars, lockVars, backupVars, adapterVars, extraVars>>
    \/ /\ RunBackupStage
       /\ UNCHANGED <<saveVars, mgrVars, lockVars, backupVars, adapterVars, extraVars>>
    \/ /\ RunAdapter
       /\ UNCHANGED <<saveVars, mgrVars, lockVars, backupVars, adapterVars, extraVars>>
    \/ /\ RunSymlinkCleanup
       /\ UNCHANGED <<saveVars, mgrVars, lockVars, backupVars, adapterVars, extraVars>>
    \/ /\ RunCompatReport
       /\ UNCHANGED <<saveVars, mgrVars, lockVars, backupVars, adapterVars, extraVars>>
    \/ /\ RunUpdateState
       /\ UNCHANGED <<saveVars, mgrVars, lockVars, backupVars, adapterVars, extraVars>>
    \/ /\ RunBackupPrune
       /\ UNCHANGED <<saveVars, mgrVars, lockVars, backupVars, adapterVars, extraVars>>
    \/ /\ RunReturn
       /\ UNCHANGED <<saveVars, mgrVars, lockVars, backupVars, adapterVars, extraVars>>

SpecRun == InitRun /\ [][NextRun]_vars

\* The events of the run's log of the given kinds
Logged(kinds) == {i \in 1..Len(rnLog) : rnLog[i].ev \in kinds}

Blocked == Has(rnResults, "_blocked")

\* The run is past the secret scan.
Scanned == rnPc \notin {"new", "init_raised", "sync_all"}

\* C1: when the secret scan yields a detection and allow_secrets is false,
\* sync_all returns {_blocked: True, _reason: 'secrets_detected', _warnings:
\* the formatted warning}, and the call has instantiated or invoked no
\* adapter, written no target file, recorded no sync or plugin state, and
\* done no symlink cleanup and no backup pruning.
C1_SecretsBlockTheRun ==
    (Scanned /\ rnDetections # << >> /\ ~rnCfg.allow_secrets) =>
        /\ rnPc = "returned"
        /\ DOMAIN rnResults = {"_blocked", "_reason", "_warnings"}
        /\ rnResults["_blocked"] = TRUE
        /\ rnResults["_reason"] = "secrets_detected"
        /\ rnResults["_warnings"].count = Len(rnDetections)
        /\ \A i \in 1..Len(rnDetections) :
              rnResults["_warnings"].lines[i][1] = rnDetections[i].var_name
        /\ Logged(WriteEvents \cup {"adapter_init"}) = {}
        /\ Snapshot = rnAtCall
        /\ rnMem = LoadResult(rnAtNew.file, rnAtNew.baks, FALSE, FALSE).state

\* A run blocked by a detected secret has returned.
C1_Witness ==
    /\ rnPc = "returned"
    /\ Blocked
    /\ Len(rnDetections) = 2
    /\ ~rnCfg.allow_secrets

\* The run was blocked by the secret scan and wrote no target file.
BlockedWithoutWrites ==
    /\ rnPc = "returned"
    /\ Blocked
    /\ rnResults["_reason"] = "secrets_detected"
    /\ rnTargetFiles = rnAtNew.tfiles
    /\ Logged({"adapter_sync", "write"}) = {}

\* Some detection names the variable.
Flagged(var_name) ==
    \E i \in 1..Len(rnDetections) : rnDetections[i].var_name = var_name

\* C19 as stated: with api-server referencing ${KEY} and setting KEY to a
\* value of 16 or more alphanumeric characters, the secret scan flags KEY and
\* a run without the override flag returns a blocked result with zero target
\* writes.
C19_KeyIsFlagged ==
    (rnServers = KeyServers /\ Scanned /\ ~rnCfg.allow_secrets) =>
        /\ Flagged(N_KEY)
        /\ BlockedWithoutWrites

\* C19 amended: with api-server referencing ${API_KEY} and setting API_KEY
\* to such a value, the secret scan flags API_KEY and a run without the
\* override flag returns a blocked result with zero target writes.
C19_ApiKeyIsFlagged ==
    (rnServers = ApiKeyServers /\ Scanned /\ ~rnCfg.allow_secrets) =>
        /\ Flagged(N_API_KEY)
        /\ BlockedWithoutWrites

\* The run of a source with api-server setting API_KEY has returned blocked.
C19_Witness ==
    /\ rnServers = ApiKeyServers
    /\ ~rnCfg.allow_secrets
    /\ rnPc = "returned"
    /\ Blocked
    /\ rnDetections = << Detection(EnvItem(N_API_KEY, LongValue)) >>

\* What a target's entry of the results is expected to be in a non-preview
\* run, written out from the adapter's kind.
OneSynced == SyncResult(1, 0, 0, 0, << >>)
OneFailed(cat) == SyncResult(0, 0, 1, 0, <<cat>>)
ExpectedEntry(kind) ==
    IF kind \in {"sync_raises", "ctor_raises"}
    THEN ("error" :> SyncResult(0, 0, 1, 0, <<"exc">>))
    ELSE [cat \in {"rules", "skills", "agents", "commands", "mcp", "settings"} |->
             IF cat = "mcp" /\ kind = "mcp_raises" THEN OneFailed("mcp")
             ELSE OneSynced]

\* C2 as claimed: in a non-preview run no exception of a target's adapter,
\* raised by get_adapter or by its sync_all, leaves sync_all; the target is
\* reported as a single failed=1 entry and every other target is synced
\* and reported with its ordinary counts.
C2_AdapterFailureIsolated ==
    ~rnCfg.dry_run =>
        /\ rnPc # "adapter_raised"
        /\ (rnPc = "returned" /\ ~Blocked) =>
              \A t \in Targets :
                  /\ Has(rnResults, t)
                  /\ rnResults[t] = ExpectedEntry(rnRegistry[t])

\* C2 for the adapters that can be instantiated: an exception of sync_all
\* is reported as a single failed=1 entry and the other targets are synced.
C2_SyncAllFailureIsolated ==
    (~rnCfg.dry_run /\ \A t \in Targets : rnRegistry[t] # "ctor_raises") =>
        /\ rnPc # "adapter_raised"
        /\ (rnPc = "returned" /\ ~Blocked) =>
              \A t \in Targets :
                  /\ Has(rnResults, t)
                  /\ rnResults[t] = ExpectedEntry(rnRegistry[t])

\* A non-preview run in which one adapter's sync_all raised has returned.
C2_Witness ==
    /\ rnPc = "returned"
    /\ ~rnCfg.dry_run
    /\ rnRegistry["gemini"] = "sync_raises"
    /\ Has(rnResults, "gemini") /\ Has(rnResults["gemini"], "error")
    /\ Has(rnResults, "opencode") /\ Has(rnResults["opencode"], "rules")

\* C4 as claimed: a run with dry_run=True, from the construction of the
\* orchestrator to the return of sync_all, leaves the state file and the
\* target files as they were, syncs no adapter, records nothing, cleans and
\* prunes nothing and makes no backup; it makes the secret scan and, when
\* not blocked, the conflict scan, and returns a preview for every target.
C4_DryRunChangesNothing ==
    rnCfg.dry_run =>
        /\ stateFile = rnAtNew.file
        /\ bakCount = rnAtNew.baks
        /\ rnTargetFiles = rnAtNew.tfiles
        /\ rnBackups = rnAtNew.backups
        /\ Logged(WriteEvents) = {}
        /\ rnPc = "returned" => Logged({"secret_scan"}) # {}
        /\ (rnPc = "returned" /\ ~Blocked) =>
              /\ Logged({"conflict_scan"}) # {}
              /\ \A t \in Targets :
                    /\ Has(rnResults, t)
                    /\ Has(rnResults[t], "is_preview")

\* C4 from the call of sync_all on: the preview changes nothing.
C4_DryRunSyncAllChangesNothing ==
    (rnCfg.dry_run /\ rnPc \notin {"new", "init_raised"}) =>
        /\ Snapshot = rnAtCall
        /\ Logged(WriteEvents) = {}
        /\ (rnPc = "returned" /\ ~Blocked) =>
              /\ Logged({"conflict_scan"}) # {}
              /\ \A t \in Targets :
                    /\ Has(rnResults, t)
                    /\ Has(rnResults[t], "is_preview")

\* A preview run has returned a preview for every target, with the state
\* file rewritten by the migration of its version-1 document.
C4_Witness ==
    /\ rnCfg.dry_run
    /\ rnPc = "returned"
    /\ \A t \in Targets : Has(rnResults, t) /\ Has(rnResults[t], "is_preview")
    /\ rnAtNew.file = CompleteFile(V1Doc)
    /\ stateFile # rnAtNew.file

\* C7 as claimed: in a non-preview run every write of a target's adapter is
\* preceded by a backup of that target's files.
C7_BackupBeforeWrite ==
    ~rnCfg.dry_run =>
        \A i \in 1..Len(rnLog) :
            rnLog[i].ev = "write" =>
                \E j \in 1..(i - 1) :
                    rnLog[j].ev = "backup" /\ rnLog[j].target = rnLog[i].target

\* A target's adapter has written in a non-preview run.
C7_Witness ==
    /\ ~rnCfg.dry_run
    /\ rnPc = "returned"
    /\ \A t \in Targets : rnTargetFiles[t] = 1

\* C9: whatever the conflict scan finds, a non-blocked run goes on to the
\* adapters and every target it reaches gets the entry it gets without
\* conflicts; the scan itself changes neither the stored state nor a file;
\* the result has the key _conflicts iff some target's conflict list is
\* non-empty.
C9_ConflictsNeverBlock ==
    /\ [](/\ rnPc \in {"backup", "adapters", "report", "state", "prune",
                       "finish", "returned"} /\ ~Blocked
             => /\ DOMAIN rnConflicts = Targets
                /\ \A i \in 1..Len(TargetOrder) :
                      i < rnIdx =>
                          /\ Has(rnResults, TargetOrder[i])
                          /\ rnResults[TargetOrder[i]] =
                                IF rnCfg.dry_run
                                THEN PreviewSync(TargetOrder[i])
                                ELSE ExpectedEntry(rnRegistry[TargetOrder[i]])
          /\ rnPc = "adapter_raised"
             => rnRegistry[TargetOrder[rnIdx]] = "ctor_raises"
          /\ (rnPc = "returned" /\ ~Blocked)
             => /\ Has(rnResults, "_conflicts")
                   <=> \E t \in Targets : rnConflicts[t] # << >>
                /\ Has(rnResults, "_conflicts")
                   => rnResults["_conflicts"] = rnConflicts)
    /\ [][rnPc = "conflict" =>
             /\ rnPc' = "backup"
             /\ stateFile' = stateFile
             /\ bakCount' = bakCount
             /\ rnMem' = rnMem
             /\ rnSrc' = rnSrc
             /\ rnTargetFiles' = rnTargetFiles
             /\ rnBackups' = rnBackups]_vars

\* A non-preview run with conflicts has synced every target and returned
\* them with the _conflicts key.
C9_Witness ==
    /\ rnPc = "returned"
    /\ ~rnCfg.dry_run
    /\ Has(rnResults, "_conflicts")
    /\ rnResults["_conflicts"]["codex"] # << >>
    /\ \A t \in Targets : Has(rnResults, t) /\ rnTargetFiles[t] = 1

(***************************************************************************)
(* SpecStatus: record_sync applied to every triple of counters.            *)
(***************************************************************************)
InitStatus ==
    /\ stateFile = MissingFile
    /\ bakCount = 0
    /\ clock = 2
    /\ SaveParked
    /\ MgrParked
    /\ LockParked
    /\ BackupParked
    /\ AdapterParked
    /\ RunParked
    /\ HistParked
    /\ fnIn \in [synced : 0..MaxCount, skipped : 0..MaxCount,
                 failed : 0..MaxCount, target : SyncTargets,
                 account : SyncAccounts]
    /\ fnOut = [done |-> FALSE]

NextStatus ==
    /\ ApplyRecordSync
    /\ UNCHANGED <<stateVars, saveVars, mgrVars, lockVars, backupVars,
                   adapterVars, runVars, histVars>>

SpecStatus == InitStatus /\ [][NextStatus]_vars

\* The status record_sync has stored for the drawn target
StoredStatus == TargetStateOf(fnOut.state, fnIn.target, fnIn.account).data.status

\* C20 as claimed: the status record_sync stores is the status of the data
\* model, which is nothing if synced+skipped+failed = 0, success if
\* failed = 0, failed if synced = 0 and failed > 0, and partial otherwise.
C20_StoredStatusIsModelStatus ==
    fnOut.done =>
        LET claimed == IF fnIn.synced + fnIn.skipped + fnIn.failed = 0 THEN "nothing"
                       ELSE IF fnIn.failed = 0 THEN "success"
                       ELSE IF fnIn.synced = 0 /\ fnIn.failed > 0 THEN "failed"
                       ELSE "partial"
        IN  /\ fnOut.status = claimed
            /\ StoredStatus = claimed

\* C20 where something was processed: the stored status is the model's.
C20_StoredStatusWhenNonZero ==
    (fnOut.done /\ fnIn.synced + fnIn.skipped + fnIn.failed > 0) =>
        StoredStatus = fnOut.status

\* record_sync has stored a status for counters that are all zero.
C20_Witness ==
    /\ fnOut.done
    /\ fnIn.synced + fnIn.skipped + fnIn.failed = 0
    /\ fnIn.account = "work"
    /\ StoredStatus = "success"

(***************************************************************************)
(* SpecDrift: detect_drift applied to stored states and current digests.   *)
(***************************************************************************)
InitDrift ==
    /\ stateFile = MissingFile
    /\ bakCount = 0
    /\ clock = 2
    /\ SaveParked
    /\ MgrParked
    /\ LockParked
    /\ BackupParked
    /\ AdapterParked
    /\ RunParked
    /\ HistParked
    /\ fnIn \in [state : DriftStates, target : SyncTargets,
                 account : {NoAccount, "work", "other"},
                 current_hashes : AllHashMaps]
    /\ fnOut = [done |-> FALSE]

NextDrift ==
    /\ ApplyDetectDrift
    /\ UNCHANGED <<stateVars, saveVars, mgrVars, lockVars, backupVars,
                   adapterVars, runVars, histVars>>

SpecDrift == InitDrift /\ [][NextDrift]_vars

\* The digests stored for the drawn target and account, if any is recorded
StoredFor(state, target, account) ==
    LET targets == IF account = NoAccount THEN state.targets
                   ELSE IF Has(state.accounts, account)
                           /\ Has(state.accounts[account], "targets")
                        THEN state.accounts[account].targets
                        ELSE EmptyMap
    IN  [recorded |-> Has(targets, target),
         hashes |-> IF Has(targets, target) THEN targets[target].file_hashes
                    ELSE EmptyMap]

\* C13: detect_drift returns, without duplicates, exactly the paths that
\* are current but not stored, stored but not current, or in both with
\* different digests; with nothing recorded for the target (or the
\* account) it returns every current path; so when one file's content
\* changed since the record, the result is that file's path alone.
C13_DriftIsSymmetricDifference ==
    fnOut.done =>
        LET result == fnOut.drifted
            cur == fnIn.current_hashes
            st == StoredFor(fnIn.state, fnIn.target, fnIn.account)
            paths == {result[i] : i \in 1..Len(result)}
        IN  /\ Cardinality(paths) = Len(result)
            /\ st.recorded =>
                  paths = (DOMAIN cur \ DOMAIN st.hashes)
                             \cup (DOMAIN st.hashes \ DOMAIN cur)
                             \cup {p \in DOMAIN cur \cap DOMAIN st.hashes :
                                      cur[p] # st.hashes[p]}
            /\ ~st.recorded => paths = DOMAIN cur

\* One file's content changed since the record, and detect_drift returned
\* that file's path alone.
C13_Witness ==
    /\ fnOut.done
    /\ fnIn.account = "work"
    /\ LET st == StoredFor(fnIn.state, fnIn.target, fnIn.account) IN
       /\ st.recorded
       /\ DOMAIN st.hashes = Paths
       /\ DOMAIN fnIn.current_hashes = Paths
       /\ st.hashes[".mcp.json"] = fnIn.current_hashes[".mcp.json"]
       /\ st.hashes["CLAUDE.md"] # fnIn.current_hashes["CLAUDE.md"]
    /\ fnOut.drifted = <<"CLAUDE.md">>

(***************************************************************************)
(* SpecRoundTrip: two StateManagers constructed on one state directory     *)
(* (as the orchestrator of a command and the orchestrator it makes for an  *)
(* account are), recording and being constructed anew in any order.        *)
(***************************************************************************)
InitRoundTrip ==
    /\ \E file \in RunFiles :
          LET r == LoadResult(file, 0, FALSE, FALSE) IN
          /\ stateFile = r.file
          /\ bakCount = r.baks
          /\ mgr = [p \in Procs |-> [loaded |-> TRUE, state |-> r.state]]
    /\ clock = 2
    /\ SaveParked
    /\ lastLoad = [valid |-> FALSE, before |-> MissingFile,
                   state |-> FreshState, after |-> MissingFile]
    /\ v1Seen = [seen |-> FALSE, doc |-> EmptyMap]
    /\ opCount = 0
    /\ LockParked
    /\ BackupParked
    /\ AdapterParked
    /\ RunParked
    /\ ExtraParked

\* The counts recorded in this specification: one success, one partial.
RoundTripCounts == { <<2, 1, 0>>, <<1, 0, 1>> }

NextRoundTrip ==
    \/ /\ \E p \in Procs : Construct(p)
       /\ UNCHANGED <<saveVars, lockVars, backupVars, adapterVars, runVars,
                      extraVars>>
    \/ /\ \E p \in Procs, t \in SyncTargets, h \in HashMaps,
             c \in RoundTripCounts, a \in SyncAccounts :
                TrackedRecordSync(p, t, h, c, a)
       /\ UNCHANGED <<saveVars, lockVars, backupVars, adapterVars, runVars,
                      pureVars, twiceVars, serverVars>>
    \/ /\ \E p \in Procs, m \in PluginCases, a \in SyncAccounts :
                TrackedRecordPluginSync(p, m, a)
       /\ UNCHANGED <<saveVars, lockVars, backupVars, adapterVars, runVars,
                      pureVars, twiceVars, serverVars>>

SpecRoundTrip == InitRoundTrip /\ [][NextRoundTrip]_vars

\* The state a StateManager constructed now would hold
ReadBack == LoadResult(stateFile, bakCount, FALSE, FALSE).state

\* What was last recorded is what a new StateManager reads back.
ReadsBackRecorded ==
    /\ \A k \in DOMAIN recorded.targets :
          LET back == TargetStateOf(ReadBack, k[2], k[1]) IN
          /\ back.found
          /\ back.data.file_hashes = recorded.targets[k].file_hashes
          /\ back.data.status = recorded.targets[k].status
          /\ back.data.items_synced = recorded.targets[k].items_synced
          /\ back.data.items_skipped = recorded.targets[k].items_skipped
          /\ back.data.items_failed = recorded.targets[k].items_failed
    /\ \A a \in DOMAIN recorded.plugins :
          PluginsOf(ReadBack, a) = recorded.plugins[a]

\* C11 as claimed: after any sequence of record_sync and record_plugin_sync
\* calls, a new StateManager on the same directory reads back, for every
\* target and account and for the plugins, what was last recorded.
C11_ReadsBackLastRecorded == ReadsBackRecorded

\* C11 for the calls of one StateManager that all returned.
C11_OneWriterReadsBack ==
    (Cardinality(recorded.writers) <= 1 /\ ~recorded.failed) => ReadsBackRecorded

\* Two StateManagers have recorded, the second from a state loaded before
\* the first one's record, which the file no longer holds.
C11_Witness ==
    /\ Cardinality(recorded.writers) = 2
    /\ ~recorded.failed
    /\ Has(recorded.targets, <<"work", "codex">>)
    /\ ~TargetStateOf(ReadBack, "codex", "work").found

(***************************************************************************)
(* SpecTwice: non-preview runs of sync_all in succession on one state      *)
(* directory, with or without an edit of a source file in between.         *)
(***************************************************************************)
InitTwice ==
    /\ stateFile \in {MissingFile, CompleteFile(V2Doc)}
    /\ bakCount = 0
    /\ clock = 2
    /\ SaveParked
    /\ MgrParked
    /\ LockParked
    /\ BackupParked
    /\ AdapterParked
    /\ rnCfg \in [dry_run : {FALSE}, allow_secrets : BOOLEAN,
                  account : {NoAccount, "work"}]
    /\ rnRegistry \in Registries
    /\ rnServers \in ServerConfigs
    /\ rnSrc \in {f \in [Paths -> {0, 1, 2}] :
                     f[".mcp.json"] = IF rnServers = << >> THEN 0 ELSE 1}
    /\ rnPc = "new"
    /\ rnMem = FreshState
    /\ rnDetections = << >>
    /\ rnConflicts = EmptyMap
    /\ rnBackupMgr = FALSE
    /\ rnResults = EmptyMap
    /\ rnIdx = 1
    /\ rnTargetFiles = [t \in Targets |-> 0]
    /\ rnBackups = NoBackups
    /\ rnLog = << >>
    /\ rnAtNew = Snapshot
    /\ rnAtCall = Snapshot
    /\ PureParked
    /\ HistParked

NextTwice ==
    \/ /\ RunConstruct
       /\ UNCHANGED <<saveVars, mgrVars, lockVars, backupVars, adapterVars, extraVars>>
    \/ /\ RunSecretScan
       /\ UNCHANGED <<saveVars, mgrVars, lockVars, backupVars, adapterVars, extraVars>>
    \/ /\ RunConflictScan
       /\ UNCHANGED <<saveVars, mgrVars, lockVars, backupVars, adapterVars, extraVars>>
    \/ /\ RunBackupStage
       /\ UNCHANGED <<saveVars, mgrVars, lockVars, backupVars, adapterVars, extraVars>>
    \/ /\ RunAdapter
       /\ UNCHANGED <<saveVars, mgrVars, lockVars, backupVars, adapterVars, extraVars>>
    \/ /\ RunSymlinkCleanup
       /\ UNCHANGED <<saveVars, mgrVars, lockVars, backupVars, adapterVars, extraVars>>
    \/ /\ RunCompatReport
       /\ UNCHANGED <<saveVars, mgrVars, lockVars, backupVars, adapterVars, extraVars>>
    \/ /\ RunUpdateState
       /\ UNCHANGED <<saveVars, mgrVars, lockVars, backupVars, adapterVars, extraVars>>
    \/ /\ RunBackupPrune
       /\ UNCHANGED <<saveVars, mgrVars, lockVars, backupVars, adapterVars, extraVars>>
    \/ /\ RunReturn
       /\ UNCHANGED <<saveVars, mgrVars, lockVars, backupVars, adapterVars, extraVars>>
    \/ /\ RunAgain
       /\ UNCHANGED <<saveVars, mgrVars, lockVars, backupVars, adapterVars,
                      pureVars, recVars, serverVars>>
    \/ /\ SourceEdit
       /\ UNCHANGED <<saveVars, mgrVars, lockVars, backupVars, adapterVars,
                      pureVars, recVars, serverVars>>

SpecTwice == InitTwice /\ [][NextTwice]_vars

\* The run has returned results that hold recorded targets.
RunRecorded == rnPc = "returned" /\ ~Blocked /\ TargetKeys(rnResults) # {}

\* file_hashes of the target's record in the given state
HashesIn(state, target) ==
    Get(TargetStateOf(state, target, rnCfg.account).data, "file_hashes", EmptyMap)

\* C12: when a non-preview run has returned and no source file was changed
\* since, detect_drift against the current source hashes is empty for every
\* target the run synced; and when no source file was changed between the
\* run before and this one, the file_hashes this run wrote are those the
\* run before wrote.
C12_NoDriftAndSameHashes ==
    RunRecorded =>
        /\ ~rnPrev.edited =>
              \A t \in TargetKeys(rnResults) :
                  DetectDrift(StateOnDisk, t, SourceHashes(rnSrc),
                              rnCfg.account) = << >>
        /\ (rnPrev.runs > 1 /\ ~rnPrev.changed) =>
              \A t \in TargetKeys(rnResults) :
                  /\ TargetStateOf(rnPrev.state, t, rnCfg.account).found
                  /\ HashesIn(StateOnDisk, t) = HashesIn(rnPrev.state, t)

\* The second of two runs for an account has returned with no edit in
\* between, both having recorded digests of two source files for codex.
C12_Witness ==
    /\ RunRecorded
    /\ rnPrev.runs = 2
    /\ ~rnPrev.changed
    /\ ~rnPrev.edited
    /\ rnCfg.account = "work"
    /\ "codex" \in TargetKeys(rnResults)
    /\ DOMAIN HashesIn(rnPrev.state, "codex") = Paths
    /\ DOMAIN HashesIn(StateOnDisk, "codex") = Paths

(***************************************************************************)
(* SpecScan: scan applied to every drawn dict of environment variables.    *)
(***************************************************************************)
InitScan ==
    /\ stateFile = MissingFile
    /\ bakCount = 0
    /\ clock = 2
    /\ SaveParked
    /\ MgrParked
    /\ LockParked
    /\ BackupParked
    /\ AdapterParked
    /\ RunParked
    /\ HistParked
    /\ fnIn \in [env_vars : ScanEnvs]
    /\ fnOut = [done |-> FALSE]

NextScan ==
    /\ ApplyScan
    /\ UNCHANGED <<stateVars, saveVars, mgrVars, lockVars, backupVars,
                   adapterVars, runVars, histVars>>

SpecScan == InitScan /\ [][NextScan]_vars

\* The indices of the detections that name the variable
DetectionsOf(var_name) ==
    {j \in 1..Len(fnOut.detections) : fnOut.detections[j].var_name = var_name}

\* The keywords of the fixed set that the upper-cased name contains
KeywordsIn(var_name) ==
    {SECRET_KEYWORDS[k] : k \in {n \in 1..Len(SECRET_KEYWORDS) :
                                    Contains(Upper(var_name), SECRET_KEYWORDS[n])}}

\* The upper-cased name starts with none of the safe prefixes.
NoSafePrefix(var_name) ==
    \A k \in 1..Len(SAFE_PREFIXES) : ~StartsWith(Upper(var_name), SAFE_PREFIXES[k])

\* The value consists of 16 or more characters of the complexity alphabet.
OfTheAlphabet(v) == v.in_class /\ ~v.nl /\ v.len >= SecretMinLen

\* Each flagged variable has exactly one detection, listing every matched
\* keyword.
OneDetectionEach ==
    \A i \in 1..Len(fnIn.env_vars) :
        LET mine == DetectionsOf(fnIn.env_vars[i].name) IN
        mine # {} =>
            /\ Cardinality(mine) = 1
            /\ \A j \in mine :
                  LET kw == fnOut.detections[j].keywords_matched IN
                  /\ {kw[n] : n \in 1..Len(kw)} = KeywordsIn(fnIn.env_vars[i].name)
                  /\ Len(kw) = Cardinality(KeywordsIn(fnIn.env_vars[i].name))

\* C17: scan flags a variable if and only if its upper-cased name starts
\* with none of the safe prefixes, contains at least one keyword of the
\* fixed set, and its value consists of 16 or more characters of the
\* complexity alphabet; each flagged variable yields exactly one detection
\* listing every matched keyword.
C17_FlaggedIff ==
    fnOut.done =>
        /\ \A i \in 1..Len(fnIn.env_vars) :
              LET item == fnIn.env_vars[i] IN
              DetectionsOf(item.name) # {} <=>
                  /\ NoSafePrefix(item.name)
                  /\ KeywordsIn(item.name) # {}
                  /\ OfTheAlphabet(item.value)
        /\ OneDetectionEach

\* The same for the dicts none of whose values ends with a newline.
C17_FlaggedIffNoFinalNewline ==
    (fnOut.done /\ \A i \in 1..Len(fnIn.env_vars) : ~fnIn.env_vars[i].value.nl) =>
        /\ \A i \in 1..Len(fnIn.env_vars) :
              LET item == fnIn.env_vars[i] IN
              DetectionsOf(item.name) # {} <=>
                  /\ NoSafePrefix(item.name)
                  /\ KeywordsIn(item.name) # {}
                  /\ OfTheAlphabet(item.value)
        /\ OneDetectionEach

\* scan was applied to API_KEY set to 16 characters of the alphabet followed
\* by a newline, and to a second variable.
C17_Witness ==
    /\ fnOut.done
    /\ Len(fnIn.env_vars) = 2
    /\ fnIn.env_vars[1] = EnvItem(N_API_KEY, [len |-> SecretMinLen,
                                              in_class |-> TRUE, nl |-> TRUE])
    /\ DetectionsOf(N_API_KEY) = {1}

(***************************************************************************)
(* SpecTwin: the secret scan of two configurations with the same servers   *)
(* and variable names and any values.                                      *)
(***************************************************************************)
InitTwin ==
    /\ stateFile = MissingFile
    /\ bakCount = 0
    /\ clock = 2
    /\ SaveParked
    /\ MgrParked
    /\ LockParked
    /\ BackupParked
    /\ AdapterParked
    /\ RunParked
    /\ HistParked
    /\ fnIn \in TwinInputs
    /\ fnOut = [done |-> FALSE]

NextTwin ==
    /\ ApplyScanToBoth
    /\ UNCHANGED <<stateVars, saveVars, mgrVars, lockVars, backupVars,
                   adapterVars, runVars, histVars>>

SpecTwin == InitTwin /\ [][NextTwin]_vars

\* The two configurations have the same servers and variable names.
SameNames ==
    /\ Len(fnIn.a) = Len(fnIn.b)
    /\ \A i \in 1..Len(fnIn.a) :
          /\ fnIn.a[i].name = fnIn.b[i].name
          /\ Len(fnIn.a[i].config.env) = Len(fnIn.b[i].config.env)
          /\ \A j \in 1..Len(fnIn.a[i].config.env) :
                fnIn.a[i].config.env[j].name = fnIn.b[i].config.env[j].name

\* The same variables satisfy the value pattern in both.
SamePattern ==
    \A i \in 1..Len(fnIn.a) :
        \A j \in 1..Len(fnIn.a[i].config.env) :
            MatchesSecretValue(fnIn.a[i].config.env[j].value)
                <=> MatchesSecretValue(fnIn.b[i].config.env[j].value)

\* C18: for two MCP configurations with the same servers and variable names
\* whose values differ, the same variables satisfying the value pattern in
\* both, the detections of scan and of scan_mcp_env, the text of
\* format_warnings and the blocked result of the orchestrator are identical.
C18_OutputsIgnoreValues ==
    (fnOut.done /\ SameNames /\ SamePattern) => fnOut.a = fnOut.b

\* Two configurations whose values all differ were scanned and both runs
\* were blocked on the same detection.
C18_Witness ==
    /\ fnOut.done
    /\ SameNames
    /\ SamePattern
    /\ \A i \in 1..Len(fnIn.a) :
          \A j \in 1..Len(fnIn.a[i].config.env) :
              fnIn.a[i].config.env[j].value # fnIn.b[i].config.env[j].value
    /\ fnOut.a.scan_mcp_env # << >>
    /\ Has(fnOut.a.result, "_blocked")
    /\ Has(fnOut.b.result, "_blocked")

(***************************************************************************)
(* SpecLayers: get_mcp_servers_with_scope applied to every drawn content   *)
(* of the four layers.                                                     *)
(***************************************************************************)
InitLayers ==
    /\ stateFile = MissingFile
    /\ bakCount = 0
    /\ clock = 2
    /\ SaveParked
    /\ MgrParked
    /\ LockParked
    /\ BackupParked
    /\ AdapterParked
    /\ RunParked
    /\ HistParked
    /\ fnIn \in LayerInputs
    /\ fnOut = [done |-> FALSE]

NextLayers ==
    /\ ApplyGetMcpServersWithScope
    /\ UNCHANGED <<stateVars, saveVars, mgrVars, lockVars, backupVars,
                   adapterVars, runVars, histVars>>

SpecLayers == InitLayers /\ [][NextLayers]_vars

\* What each layer declares: the servers its reader returns.
Declared(layer) ==
    IF layer = "local" THEN ProjectMcps(fnIn.files.local, fnIn.project_dir)
    ELSE IF layer = "project" THEN ProjectMcps(fnIn.files.project, fnIn.project_dir)
    ELSE IF layer = "user" THEN ValidMcps(fnIn.files.user)
    ELSE fnIn.files.plugin

\* The layers from the highest to the lowest
Precedence == <<"local", "project", "user", "plugin">>

\* The highest layer that declares the name
HighestLayer(name) ==
    Precedence[CHOOSE i \in 1..Len(Precedence) :
                  /\ InServers(Declared(Precedence[i]), name)
                  /\ \A j \in 1..(i - 1) : ~InServers(Declared(Precedence[j]), name)]

\* C16: with scope 'all', the entry returned for a server name is the one of
\* the highest layer that declares the name, in the order local > project >
\* user file > plugin, whatever the order in which the files list their
\* servers; a plugin's server appears only if no user file declares its
\* name, and is then tagged scope user, source plugin, with its plugin's
\* name and version.
C16_HighestLayerWins ==
    (fnOut.done /\ fnIn.scope = "all") =>
        \A i \in 1..Len(fnOut.servers) :
            LET name == fnOut.servers[i].name
                entry == fnOut.servers[i].value
                top == HighestLayer(name)
                declared == ServerAt(Declared(top), name)
            IN  /\ \E l \in {"local", "project", "user", "plugin"} :
                      InServers(Declared(l), name)
                /\ entry.metadata.source = (IF top = "plugin" THEN "plugin" ELSE "file")
                /\ entry.metadata.scope = (IF top = "plugin" THEN "user" ELSE top)
                /\ entry.config["command"] = declared["command"]
                /\ top # "plugin" => entry.config = declared
                /\ entry.metadata.source = "plugin" =>
                      /\ ~InServers(Declared("user"), name)
                      /\ DOMAIN entry.metadata = {"scope", "source", "plugin_name",
                                                  "plugin_version"}
                      /\ entry.metadata.plugin_name = declared["_plugin_name"]
                      /\ entry.metadata.plugin_version = declared["_plugin_version"]
                      /\ DOMAIN entry.config = DOMAIN declared \ UnderscoreKeys

\* Every layer declares server a and the plugins alone declare server b,
\* listed before a: the result holds the local entry for a and the plugin's
\* entry for b.
C16_Witness ==
    /\ fnOut.done
    /\ fnIn.scope = "all"
    /\ \A l \in {"local", "project", "user", "plugin"} : InServers(Declared(l), "a")
    /\ \A l \in {"local", "project", "user"} : ~InServers(Declared(l), "b")
    /\ fnIn.files.plugin[1].name = "b"
    /\ ServerAt(fnOut.servers, "a").metadata.scope = "local"
    /\ ServerAt(fnOut.servers, "b").metadata.source = "plugin"

(***************************************************************************)
(* SpecDebounce: two processes running /sync or the file-change hook again *)
(* and again while the seconds pass.                                       *)
(***************************************************************************)
InitDebounce ==
    /\ stateFile \in DebounceFiles
    /\ bakCount = 0
    /\ clock = 2
    /\ SaveParked
    /\ MgrParked
    /\ LockParked
    /\ BackupParked
    /\ AdapterParked
    /\ RunParked
    /\ HistParked
    /\ fnIn = [p \in Procs |-> [last_sync |-> None, now |-> 0]]
    /\ fnOut = [p \in Procs |-> [done |-> FALSE, result |-> FALSE]]

NextDebounce ==
    \/ /\ \E p \in Procs : DebounceCheck(p)
       /\ UNCHANGED <<saveVars, mgrVars, backupVars, adapterVars, runVars,
                      histVars>>
    \/ /\ \E p \in Procs : DebounceEnter(p)
       /\ UNCHANGED <<saveVars, mgrVars, backupVars, adapterVars, runVars,
                      histVars>>
    \/ /\ \E p \in Procs : DebounceStep(p)
       /\ UNCHANGED <<saveVars, mgrVars, backupVars, adapterVars, runVars,
                      histVars>>
    \/ /\ \E p \in Procs : DebounceExit(p)
       /\ UNCHANGED <<saveVars, mgrVars, backupVars, adapterVars, runVars,
                      histVars>>
    \/ /\ \E p \in Procs : DebounceAgain(p)
       /\ UNCHANGED <<saveVars, mgrVars, backupVars, adapterVars, runVars,
                      histVars>>
    \/ /\ Tick
       /\ UNCHANGED <<saveVars, mgrVars, backupVars, adapterVars, runVars,
                      histVars>>

SpecDebounce == InitDebounce /\ [][NextDebounce]_vars

\* The stored last_sync is a timestamp: it is recorded and it parses.
IsTimestamp(last_sync) == last_sync >= 1

\* C15: should_debounce returns true exactly when a last_sync timestamp is
\* recorded, it parses as a timestamp, and less than the debounce window of
\* 3 seconds has elapsed since it; and while an invocation of /sync or of the
\* hook is one whose check returned true, it runs no stage of the pipeline
\* and does not hold the lock.
C15_DebounceExactly ==
    /\ [](\A p \in Procs :
             fnOut[p].done =>
                 (fnOut[p].result <=>
                     /\ IsTimestamp(fnIn[p].last_sync)
                     /\ fnIn[p].now - fnIn[p].last_sync < DebounceSeconds))
    /\ [][\A p \in Procs :
             (fnOut'[p].done /\ fnOut'[p].result) =>
                 /\ lkSteps'[p] = lkSteps[p]
                 /\ p \notin lockHolders'
                 /\ lkPc'[p] = "left"]_vars

\* A process was debounced on the last_sync that a run of the other process
\* had written, and a process was let through three seconds after a
\* last_sync.
C15_Witness ==
    /\ fnOut["p1"].done
    /\ fnOut["p1"].result
    /\ fnIn["p1"].last_sync > 2
    /\ lkSteps["p2"] = PipelineSteps
    /\ fnOut["p2"].done
    /\ ~fnOut["p2"].result
    /\ IsTimestamp(fnIn["p2"].last_sync)
    /\ fnIn["p2"].now - fnIn["p2"].last_sync = DebounceSeconds

(***************************************************************************)
(* SpecServer: the main thread and the worker thread of the protocol       *)
(* server, interleaved statement by statement.                             *)
(***************************************************************************)
InitServer ==
    /\ stateFile = MissingFile
    /\ bakCount = 0
    /\ clock = 2
    /\ SaveParked
    /\ MgrParked
    /\ LockParked
    /\ BackupParked
    /\ AdapterParked
    /\ RunParked
    /\ PureParked
    /\ RecParked
    /\ TwiceParked
    /\ ServerParked

NextServer ==
    \/ /\ \E r \in Requests, tool \in Tools, valid \in BOOLEAN :
             MainHandle(r, tool, valid)
       /\ UNCHANGED <<stateVars, saveVars, mgrVars, lockVars, backupVars,
                      adapterVars, runVars, pureVars, recVars, twiceVars>>
    \/ /\ MainPut
       /\ UNCHANGED <<stateVars, saveVars, mgrVars, lockVars, backupVars,
                      adapterVars, runVars, pureVars, recVars, twiceVars>>
    \/ /\ WorkerGet
       /\ UNCHANGED <<stateVars, saveVars, mgrVars, lockVars, backupVars,
                      adapterVars, runVars, pureVars, recVars, twiceVars>>
    \/ /\ WorkerSetFlag
       /\ UNCHANGED <<stateVars, saveVars, mgrVars, lockVars, backupVars,
                      adapterVars, runVars, pureVars, recVars, twiceVars>>
    \/ /\ WorkerLock
       /\ UNCHANGED <<stateVars, saveVars, mgrVars, lockVars, backupVars,
                      adapterVars, runVars, pureVars, recVars, twiceVars>>
    \/ /\ WorkerHandlerEnds
       /\ UNCHANGED <<stateVars, saveVars, mgrVars, lockVars, backupVars,
                      adapterVars, runVars, pureVars, recVars, twiceVars>>
    \/ /\ WorkerFinally
       /\ UNCHANGED <<stateVars, saveVars, mgrVars, lockVars, backupVars,
                      adapterVars, runVars, pureVars, recVars, twiceVars>>
    \/ /\ WorkerRespond
       /\ UNCHANGED <<stateVars, saveVars, mgrVars, lockVars, backupVars,
                      adapterVars, runVars, pureVars, recVars, twiceVars>>

SpecServer == InitServer /\ [][NextServer]_vars

\* The sync requests the main thread has handled
SyncHandled ==
    {r \in Requests : srvLog[r].tool = "sync_all"
                        /\ srvLog[r].outcome \in {"busy", "queued"}}

\* C14: at most one sync handler executes at a time and at most one sync
\* request is pending in the queue; a sync request that arrives while
\* another sync request is executing or pending (in the queue, or taken from
\* it by the worker) is answered at once with status busy and is never
\* executed.
C14_OneAtATimeOthersBusy ==
    /\ Cardinality({r \in Requests : Executing(r)}) <= 1
    /\ Cardinality({r \in Requests : Pending(r)}) <= 1
    /\ \A r \in SyncHandled :
          srvLog[r].others => (srvLog[r].outcome = "busy" /\ ~srvLog[r].executed)

\* At most one handler executes and at most one request is pending, and no
\* request is put in the queue while sync_in_progress is seen set.
C14_OneAtATime ==
    /\ Cardinality({r \in Requests : Executing(r)}) <= 1
    /\ Cardinality({r \in Requests : Pending(r)}) <= 1
    /\ Len(srvQueue) <= QueueSize
    /\ \A r \in Requests : Pending(r) => srvLog[r].outcome = "queued"
    /\ \A r \in Requests : srvLog[r].executed => srvLog[r].outcome = "queued"

\* The second request arrived when the worker had taken the first from the
\* queue, was queued, and its handler has run after the first's.
C14_Witness ==
    /\ srvLog[1].executed
    /\ srvLog[1].answered
    /\ srvLog[2].tool = "sync_all"
    /\ srvLog[2].others
    /\ srvLog[2].outcome = "queued"
    /\ srvLog[2].executed

(***************************************************************************)
(* SpecCalls: two StateManagers constructed on one state directory, each   *)
(* making record calls.                                                    *)
(***************************************************************************)
InitCalls ==
    /\ \E file \in CallFiles :
          LET r == LoadResult(file, 0, FALSE, FALSE) IN
          /\ stateFile = r.file
          /\ bakCount = r.baks
          /\ mgr = [p \in Procs |-> [loaded |-> TRUE, state |-> r.state]]
    /\ clock = 2
    /\ SaveParked
    /\ lastLoad = [valid |-> FALSE, before |-> MissingFile,
                   state |-> FreshState, after |-> MissingFile]
    /\ v1Seen = [seen |-> FALSE, doc |-> EmptyMap]
    /\ opCount = 0
    /\ LockParked
    /\ BackupParked
    /\ AdapterParked
    /\ RunParked
    /\ ExtraParked

NextCalls ==
    \/ /\ \E p \in Procs, t \in SyncTargets, a \in SyncAccounts :
             CallRecordSync(p, t, a)
       /\ UNCHANGED <<saveVars, lockVars, backupVars, adapterVars, runVars,
                      histVars>>
    \/ /\ \E p \in Procs, m \in PluginCases, a \in SyncAccounts :
             CallRecordPluginSync(p, m, a)
       /\ UNCHANGED <<saveVars, lockVars, backupVars, adapterVars, runVars,
                      histVars>>

SpecCalls == InitCalls /\ [][NextCalls]_vars

\* The sections of a state document
FlatTargets(state) == Get(state, "targets", EmptyMap)

AccountsOf(state) == Get(state, "accounts", EmptyMap)

AccountTargets(state, account) ==
    Get(Get(AccountsOf(state), account, EmptyMap), "targets", EmptyMap)

\* Two dicts hold the same entries, key k aside.
SameBut(d1, d2, k) ==
    /\ DOMAIN d1 \ {k} = DOMAIN d2 \ {k}
    /\ \A x \in DOMAIN d1 \ {k} : d1[x] = d2[x]

\* Every plugins section is the same in the two documents.
SamePlugins(before, after) ==
    \A a \in {NoAccount} \cup DOMAIN AccountsOf(before) \cup DOMAIN AccountsOf(after) :
        PluginsOf(before, a) = PluginsOf(after, a)

\* What record_sync(target, account) may change between two documents:
\* the record of the target in its storage location, the last_sync of the
\* account and the global last_sync.
RecordSyncFrame(before, after, target, account) ==
    /\ SamePlugins(before, after)
    /\ IF account = NoAccount
       THEN /\ SameBut(FlatTargets(before), FlatTargets(after), target)
            /\ AccountsOf(before) = AccountsOf(after)
       ELSE /\ FlatTargets(before) = FlatTargets(after)
            /\ SameBut(AccountsOf(before), AccountsOf(after), account)
            /\ SameBut(AccountTargets(before, account),
                       AccountTargets(after, account), target)

\* The document state.json holds
DocOf(file) == ReadJsonSafe(file)

\* C21 as claimed: record_sync changes only the record of its target in
\* its storage location (flat targets, or the targets of its account), the
\* last_sync of its account and the global last_sync; every other target
\* record, every other account, the plugins sections and the other storage
\* location are unchanged, in memory and in the persisted document.
C21_RecordSyncFrame ==
    (fnOut.done /\ fnOut.op = "record_sync") =>
        /\ RecordSyncFrame(fnOut.mem, mgr[fnOut.p].state, fnOut.target, fnOut.account)
        /\ RecordSyncFrame(DocOf(fnOut.disk), DocOf(stateFile),
                           fnOut.target, fnOut.account)

\* C21 in memory: the frame holds of the state the calling StateManager
\* holds, and a call that returned has persisted exactly that state.
C21_RecordSyncFrameInMemory ==
    (fnOut.done /\ fnOut.op = "record_sync") =>
        /\ RecordSyncFrame(fnOut.mem, mgr[fnOut.p].state, fnOut.target, fnOut.account)
        /\ fnOut.returned => DocOf(stateFile) = mgr[fnOut.p].state

\* A record_sync for an account has returned whose caller held a state
\* loaded before another StateManager recorded: the persisted document had
\* a record of another target, which the call has removed.
C21_Witness ==
    /\ fnOut.done
    /\ fnOut.op = "record_sync"
    /\ fnOut.returned
    /\ fnOut.account = "work"
    /\ fnOut.target = "codex"
    /\ Has(AccountTargets(DocOf(fnOut.disk), "work"), "gemini")
    /\ ~Has(AccountTargets(DocOf(stateFile), "work"), "gemini")

\* The target records of every storage location are the same in the two
\* documents.
SameTargets(before, after) ==
    /\ FlatTargets(before) = FlatTargets(after)
    /\ \A a \in DOMAIN AccountsOf(before) \cup DOMAIN AccountsOf(after) :
          AccountTargets(before, a) = AccountTargets(after, a)

\* The plugins sections other than that of the account (the flat one for
\* NoAccount) are the same in the two documents.
SameOtherPlugins(before, after, account) ==
    \A a \in ({NoAccount} \cup DOMAIN AccountsOf(before)
                          \cup DOMAIN AccountsOf(after)) \ {account} :
        PluginsOf(before, a) = PluginsOf(after, a)

InitPluginDrift ==
    /\ stateFile = MissingFile
    /\ bakCount = 0
    /\ clock = 2
    /\ SaveParked
    /\ MgrParked
    /\ LockParked
    /\ BackupParked
    /\ AdapterParked
    /\ RunParked
    /\ HistParked
    /\ \E stored \in PluginDicts, current \in PluginDicts, a \in SyncAccounts,
          recorded_before \in BOOLEAN :
          fnIn = [state |-> IF recorded_before
                            THEN RecordPluginState(FreshState, stored, a)
                            ELSE FreshState,
                  stored |-> IF recorded_before THEN stored ELSE EmptyMap,
                  current_plugins |-> current,
                  account |-> a]
    /\ fnOut = [done |-> FALSE]

NextPluginDrift ==
    /\ ApplyDetectPluginDrift
    /\ UNCHANGED <<stateVars, saveVars, mgrVars, lockVars, backupVars,
                   adapterVars, runVars, histVars>>

SpecPluginDrift == InitPluginDrift /\ [][NextPluginDrift]_vars

\* The version and the count of a metadata record, None for a missing one
VersionOf(meta) == MetaGet(meta, "version")

CountOf(meta) == MetaGet(meta, "mcp_count")

\* C23: detect_plugin_drift maps each plugin name to at most one reason
\* and contains exactly the names that are stored only (removed), current
\* only (added), or in both with a different version (version_changed:
\* old -> new) or, the version being equal, a different mcp_count
\* (mcp_count_changed: old -> new); when both differ only version_changed
\* is reported, a plugin with equal version and count is absent, and the
\* call changes no stored state.
C23_PluginDriftReasons ==
    fnOut.done =>
        LET stored == fnIn.stored
            current == fnIn.current_plugins
        IN  /\ DOMAIN fnOut.drift \subseteq DOMAIN stored \cup DOMAIN current
            /\ \A n \in DOMAIN stored \cup DOMAIN current :
                  IF n \notin DOMAIN current
                  THEN Has(fnOut.drift, n) /\ fnOut.drift[n] = <<"removed">>
                  ELSE IF n \notin DOMAIN stored
                  THEN Has(fnOut.drift, n) /\ fnOut.drift[n] = <<"added">>
                  ELSE IF VersionOf(stored[n]) # VersionOf(current[n])
                  THEN /\ Has(fnOut.drift, n)
                       /\ fnOut.drift[n] = <<"version_changed", VersionOf(stored[n]),
                                             VersionOf(current[n])>>
                  ELSE IF CountOf(stored[n]) # CountOf(current[n])
                  THEN /\ Has(fnOut.drift, n)
                       /\ fnOut.drift[n] = <<"mcp_count_changed", CountOf(stored[n]),
                                             CountOf(current[n])>>
                  ELSE ~Has(fnOut.drift, n)
            /\ fnOut.state = fnIn.state

\* A plugin stored for an account whose version and count both differ from
\* the current ones is reported as version_changed, next to a removed one.
C23_Witness ==
    /\ fnOut.done
    /\ fnIn.account = "work"
    /\ Has(fnIn.stored, "plug") /\ Has(fnIn.current_plugins, "plug")
    /\ VersionOf(fnIn.stored["plug"]) = <<"1.0">>
    /\ VersionOf(fnIn.current_plugins["plug"]) = <<"2.0">>
    /\ CountOf(fnIn.stored["plug"]) # CountOf(fnIn.current_plugins["plug"])
    /\ fnOut.drift["plug"] = <<"version_changed", <<"1.0">>, <<"2.0">>>>
    /\ Has(fnIn.stored, "grd") /\ ~Has(fnIn.current_plugins, "grd")
    /\ fnOut.drift["grd"] = <<"removed">>

(***************************************************************************)
(* SpecMerge: SyncResult.merge applied to three results.                   *)
(***************************************************************************)
InitMerge ==
    /\ stateFile = MissingFile
    /\ bakCount = 0
    /\ clock = 2
    /\ SaveParked
    /\ MgrParked
    /\ LockParked
    /\ BackupParked
    /\ AdapterParked
    /\ RunParked
    /\ HistParked
    /\ fnIn \in [a : MergeOperands, b : MergeOperands, c : MergeOperands]
    /\ fnOut = [done |-> FALSE]

NextMerge ==
    /\ ApplyMerge
    /\ UNCHANGED <<stateVars, saveVars, mgrVars, lockVars, backupVars,
                   adapterVars, runVars, histVars>>

SpecMerge == InitMerge /\ [][NextMerge]_vars

\* The four counters of a result
CountersOf(r) == <<r.synced, r.skipped, r.failed, r.adapted>>

\* The number of times x occurs in a list
Occurrences(list, x) == Cardinality({i \in 1..Len(list) : list[i] = x})

\* Two lists hold the same entries the same number of times.
SameEntries(l1, l2) ==
    /\ Len(l1) = Len(l2)
    /\ \A i \in 1..Len(l1) : Occurrences(l1, l1[i]) = Occurrences(l2, l1[i])

OperandsUnchanged ==
    /\ fnOut.a = fnIn.a
    /\ fnOut.b = fnIn.b
    /\ fnOut.c = fnIn.c

\* C24 as claimed: merge is associative and commutative over all seven
\* fields, the four counters and the three file lists:
\* merge(merge(a,b),c) = merge(a,merge(b,c)) and merge(a,b) = merge(b,a),
\* and both operands are left unchanged.
C24_MergeAssociativeCommutative ==
    fnOut.done =>
        /\ fnOut.ab_c = fnOut.a_bc
        /\ fnOut.ab = fnOut.ba
        /\ OperandsUnchanged

\* C24 with the file lists commutative up to their order: merge is
\* associative over all seven fields; merge(a,b) and merge(b,a) have the
\* same four counters and file lists with the same entries; the operands
\* are left unchanged.
C24_MergeAssociativeCountersCommutative ==
    fnOut.done =>
        /\ fnOut.ab_c = fnOut.a_bc
        /\ CountersOf(fnOut.ab) = CountersOf(fnOut.ba)
        /\ SameEntries(fnOut.ab.synced_files, fnOut.ba.synced_files)
        /\ SameEntries(fnOut.ab.skipped_files, fnOut.ba.skipped_files)
        /\ SameEntries(fnOut.ab.failed_files, fnOut.ba.failed_files)
        /\ OperandsUnchanged

\* Two results with different synced files were merged in both orders:
\* the lists of the two merges differ in order only.
C24_Witness ==
    /\ fnOut.done
    /\ fnIn.a.synced_files = <<"a.md">>
    /\ fnIn.b.synced_files = <<"b.md">>
    /\ fnIn.a.adapted = 0 /\ fnIn.b.adapted = 1
    /\ fnOut.ab.synced_files = <<"a.md", "b.md">>
    /\ fnOut.ba.synced_files = <<"b.md", "a.md">>
    /\ fnOut.ab_c = fnOut.a_bc

(***************************************************************************)
(* SpecHandEdit: runs in succession, an output file being edited or        *)
(* deleted by hand between two runs while the sources stay unchanged.      *)
(***************************************************************************)
NextHandEdit ==
    \/ /\ RunConstruct
       /\ UNCHANGED <<saveVars, mgrVars, lockVars, backupVars, adapterVars, extraVars>>
    \/ /\ RunSecretScan
       /\ UNCHANGED <<saveVars, mgrVars, lockVars, backupVars, adapterVars, extraVars>>
    \/ /\ RunConflictScan
       /\ UNCHANGED <<saveVars, mgrVars, lockVars, backupVars, adapterVars, extraVars>>
    \/ /\ RunBackupStage
       /\ UNCHANGED <<saveVars, mgrVars, lockVars, backupVars, adapterVars, extraVars>>
    \/ /\ RunAdapter
       /\ UNCHANGED <<saveVars, mgrVars, lockVars, backupVars, adapterVars, extraVars>>
    \/ /\ RunSymlinkCleanup
       /\ UNCHANGED <<saveVars, mgrVars, lockVars, backupVars, adapterVars, extraVars>>
    \/ /\ RunCompatReport
       /\ UNCHANGED <<saveVars, mgrVars, lockVars, backupVars, adapterVars, extraVars>>
    \/ /\ RunUpdateState
       /\ UNCHANGED <<saveVars, mgrVars, lockVars, backupVars, adapterVars, extraVars>>
    \/ /\ RunBackupPrune
       /\ UNCHANGED <<saveVars, mgrVars, lockVars, backupVars, adapterVars, extraVars>>
    \/ /\ RunReturn
       /\ UNCHANGED <<saveVars, mgrVars, lockVars, backupVars, adapterVars, extraVars>>
    \/ /\ RunAgain
       /\ UNCHANGED <<saveVars, mgrVars, lockVars, backupVars, adapterVars,
                      pureVars, recVars, serverVars>>
    \/ /\ HandEdit
       /\ UNCHANGED <<saveVars, mgrVars, lockVars, backupVars, adapterVars,
                      pureVars, recVars, serverVars>>

SpecHandEdit == InitTwice /\ [][NextHandEdit]_vars

\* The conflict scan of the run has been made.
ConflictScanned == Scanned /\ ~Blocked /\ rnPc # "conflict"

\* The run before has left a record for the target (the baseline).
BaselineFrom(state, target) == TargetStateOf(state, target, rnCfg.account).found

\* The state holds a record for the target, flat or of some account.
AnyBaseline(state, target) ==
    \/ Has(FlatTargets(state), target)
    \/ \E a \in DOMAIN AccountsOf(state) : Has(AccountTargets(state, a), target)

\* The conflicts reported under the target that name the file
ReportsOf(target, file) ==
    {i \in 1..Len(rnConflicts[target]) : rnConflicts[target][i].file_path = file}

\* C25 as claimed: after a run, if one of a target's output files is
\* edited or deleted by hand while all source files stay unchanged, the
\* conflict scan of the next run reports that file under that target (as
\* deleted, its current digest empty, when it no longer exists); with no
\* prior baseline for a target, no conflict is reported for it.
C25_HandEditReported ==
    ConflictScanned =>
        /\ (rnPrev.hand # NoEdit /\ BaselineFrom(rnPrev.state, rnPrev.hand.target)) =>
              LET t == rnPrev.hand.target
                  reports == ReportsOf(t, OutputFile(t))
              IN  /\ reports # {}
                  /\ \A i \in reports :
                        rnPrev.hand.how = "deleted"
                            <=> rnConflicts[t][i].current_hash = NoHash
        /\ \A t \in Targets :
              ~AnyBaseline(rnAtCall.file.doc, t) => rnConflicts[t] = << >>

\* The output file of codex was edited by hand after a run that recorded
\* codex; the conflict scan of the next run has reported nothing for codex.
C25_Witness ==
    /\ ConflictScanned
    /\ rnPrev.runs = 2
    /\ rnPrev.hand = [target |-> "codex", how |-> "edited"]
    /\ rnCfg.account = NoAccount
    /\ BaselineFrom(rnPrev.state, "codex")
    /\ rnConflicts["codex"] = << >>

(***************************************************************************)
(* SpecHashes: the state update of a non-preview run applied to source     *)
(* trees.                                                                  *)
(***************************************************************************)
InitHashes ==
    /\ stateFile = MissingFile
    /\ bakCount = 0
    /\ clock = 2
    /\ SaveParked
    /\ MgrParked
    /\ LockParked
    /\ BackupParked
    /\ AdapterParked
    /\ RunParked
    /\ HistParked
    /\ fnIn \in [tree : SourceTrees, account : SyncAccounts,
                 synced_targets : {{"codex"}, Targets},
                 state : {FreshState, V2Doc}]
    /\ fnOut = [done |-> FALSE]

NextHashes ==
    /\ ApplyUpdateState
    /\ UNCHANGED <<stateVars, saveVars, mgrVars, lockVars, backupVars,
                   adapterVars, runVars, histVars>>

SpecHashes == InitHashes /\ [][NextHashes]_vars

\* The source paths discovered in the run
Discovered ==
    UNION {{fnOut.source_paths[ct][i] : i \in 1..Len(fnOut.source_paths[ct])} :
              ct \in DOMAIN fnOut.source_paths}

\* The file_hashes recorded for a target
RecordedHashes(target) ==
    TargetStateOf(fnOut.state, target, fnIn.account).data.file_hashes

\* C26 as claimed: after a non-preview run, the file_hashes recorded for
\* each synced target has exactly one entry for every source path
\* discovered in that run (the rules, skills, agents, commands, MCP and
\* settings sources returned by get_source_paths), each mapped to the
\* digest of that path's content at that run, and no other entry.
C26_HashesOfDiscoveredPaths ==
    fnOut.done =>
        \A t \in fnIn.synced_targets :
            /\ DOMAIN RecordedHashes(t) = Discovered
            /\ \A p \in DOMAIN RecordedHashes(t) :
                  RecordedHashes(t)[p] = HashOf(fnIn.tree[p].content)

\* C26 for the discovered paths that are readable regular files: the
\* recorded file_hashes has exactly one entry for each of them, mapped to
\* the digest of its content, and no other entry; a discovered skill
\* directory and a discovered file that cannot be read have no entry.
C26_HashesOfDiscoveredFiles ==
    fnOut.done =>
        \A t \in fnIn.synced_targets :
            /\ DOMAIN RecordedHashes(t) =
                  {p \in Discovered : fnIn.tree[p].kind = "file"}
            /\ \A p \in DOMAIN RecordedHashes(t) :
                  RecordedHashes(t)[p] = HashOf(fnIn.tree[p].content)

\* A run for an account has discovered a rules file, an agent file and a
\* skill directory; the files have their digests recorded for codex, the
\* skill directory has no entry.
C26_Witness ==
    /\ fnOut.done
    /\ fnIn.account = "work"
    /\ fnIn.tree["~/.claude/CLAUDE.md"] = [kind |-> "file", content |-> 2]
    /\ {"~/.claude/CLAUDE.md", "~/.claude/agents/a.md", "~/.claude/skills/review"}
          \subseteq Discovered
    /\ RecordedHashes("codex")["~/.claude/CLAUDE.md"] = HashOf(2)
    /\ Has(RecordedHashes("codex"), "~/.claude/agents/a.md")
    /\ ~Has(RecordedHashes("codex"), "~/.claude/skills/review")

(***************************************************************************)
(* SpecDiscover: discover_all and get_source_paths over every combination  *)
(* of good and bad source files.                                           *)
(***************************************************************************)
InitDiscover ==
    /\ stateFile = MissingFile
    /\ bakCount = 0
    /\ clock = 2
    /\ SaveParked
    /\ MgrParked
    /\ LockParked
    /\ BackupParked
    /\ AdapterParked
    /\ RunParked
    /\ HistParked
    /\ fnIn \in [JsonFiles -> JsonKinds]
    /\ fnOut = [done |-> FALSE]

NextDiscover ==
    /\ ApplyDiscoverAll
    /\ UNCHANGED <<stateVars, saveVars, mgrVars, lockVars, backupVars,
                   adapterVars, runVars, histVars>>

SpecDiscover == InitDiscover /\ [][NextDiscover]_vars

\* The servers the files that are objects declare; those of the plugin
\* need the registry that lists the plugin.
Provided(tree) ==
    {s \in {"u", "p", "m", "i"} :
        \/ s = "u" /\ tree["claude_json"] = "object"
        \/ s = "p" /\ tree["proj_mcp"] = "object"
        \/ s = "m" /\ tree["plugin_mcp"] = "object" /\ tree["registry"] = "object"
        \/ s = "i" /\ tree["plugin_json"] = "object" /\ tree["registry"] = "object"}

\* C27 as claimed: for every combination of missing, unreadable, corrupt
\* or not-an-object content in the source files, discover_all and
\* get_source_paths return without raising, skipping the bad file and
\* still returning what the other files provide.
C27_DiscoveryNeverRaises ==
    fnOut.done =>
        /\ ~fnOut.discover_all.raised
        /\ ~fnOut.get_source_paths.raised
        /\ fnOut.discover_all.servers = Provided(fnIn)

\* C27 without the files that hold JSON which is no object: missing,
\* unreadable and corrupt files are skipped.
C27_MissingAndCorruptSkipped ==
    (fnOut.done /\ \A f \in JsonFiles : fnIn[f] # "not_object") =>
        /\ ~fnOut.discover_all.raised
        /\ ~fnOut.get_source_paths.raised
        /\ fnOut.discover_all.servers = Provided(fnIn)

\* The project's .mcp.json holds a JSON list, every other file is a good
\* object: discover_all has raised.
C27_Witness ==
    /\ fnOut.done
    /\ fnIn["proj_mcp"] = "not_object"
    /\ \A f \in JsonFiles \ {"proj_mcp"} : fnIn[f] = "object"
    /\ fnOut.discover_all.raised
    /\ ~fnOut.get_source_paths.raised

(***************************************************************************)
(* SpecRegistry: classes being registered and adapters being got.          *)
(***************************************************************************)
InitRegistry ==
    /\ stateFile = MissingFile
    /\ bakCount = 0
    /\ clock = 2
    /\ SaveParked
    /\ MgrParked
    /\ LockParked
    /\ BackupParked
    /\ AdapterParked
    /\ rnCfg = [dry_run |-> FALSE, allow_secrets |-> FALSE, account |-> NoAccount]
    /\ rnRegistry = EmptyMap
    /\ rnServers = << >>
    /\ rnSrc = [p \in Paths |-> 0]
    /\ rnPc = "new"
    /\ rnMem = FreshState
    /\ rnDetections = << >>
    /\ rnConflicts = EmptyMap
    /\ rnBackupMgr = FALSE
    /\ rnResults = EmptyMap
    /\ rnIdx = 1
    /\ rnTargetFiles = [t \in Targets |-> 0]
    /\ rnBackups = NoBackups
    /\ rnLog = << >>
    /\ rnAtNew = [file |-> MissingFile, baks |-> 0,
                  tfiles |-> [t \in Targets |-> 0], backups |-> NoBackups]
    /\ rnAtCall = rnAtNew
    /\ PureParked
    /\ HistParked

NextRegistry ==
    \/ /\ \E k \in RegistryKeys, c \in AdapterClasses : Register(k, c)
       /\ UNCHANGED <<stateVars, saveVars, mgrVars, lockVars, backupVars,
                      adapterVars, histVars>>
    \/ /\ \E k \in RegistryKeys : GetAdapter(k)
       /\ UNCHANGED <<stateVars, saveVars, mgrVars, lockVars, backupVars,
                      adapterVars, histVars>>

SpecRegistry == InitRegistry /\ [][NextRegistry]_vars

\* The class satisfies the adapter contract: an AdapterBase subclass that
\* has the six required operations.
SatisfiesContract(adapter_class) ==
    /\ adapter_class.is_subclass
    /\ RequiredOperations \subseteq adapter_class.implemented

C28_RegisterValidatesInheritance ==
    /\ (fnOut.done /\ fnOut.op = "register" /\ ~fnOut.adapter_class.is_subclass) =>
            /\ fnOut.outcome = "TypeError"
            /\ rnRegistry = fnOut.before
    /\ \A k \in ListTargets(rnRegistry) : rnRegistry[k].is_subclass

Stages == <<"secret_scan", "conflict_scan", "adapter_sync", "symlink_cleanup",
            "compat_report", "record_sync", "backup_prune">>

\* The stage an event of the log belongs to
StageOf(event) ==
    IF event.ev \in {"adapter_init", "adapter_sync", "write"} THEN "adapter_sync"
    ELSE IF event.ev \in {"record_sync", "record_plugin"} THEN "record_sync"
    ELSE event.ev

PositionIn(seq, x) == CHOOSE i \in 1..Len(seq) : seq[i] = x

\* The events of the log of one kind for one target
EventsOf(kind, target) ==
    {i \in 1..Len(rnLog) : rnLog[i] = Ev(kind, target)}

\* The stages that have logged an event
StagesLogged == {StageOf(rnLog[i]) : i \in 1..Len(rnLog)}

\* The run is between its conflict scan and its state update.
BeforeStateUpdate == rnPc \in {"backup", "adapters", "report", "state"}

\* C29: in a non-preview, non-blocked run the stages happen in this order:
\* secret scan, conflict scan, adapter sync of every registered target in
\* sorted target-name order, symlink cleanup, compatibility report, state
\* update, backup pruning.  The conflict scan reads the stored baseline
\* before the run's state update overwrites it, no state is recorded until
\* every target's adapter has returned, and each target's state is
\* recorded exactly once per run.
C29_StageOrder ==
    ~rnCfg.dry_run =>
        /\ \A i, j \in 1..Len(rnLog) :
              i < j =>
                /\ PositionIn(Stages, StageOf(rnLog[i]))
                      <= PositionIn(Stages, StageOf(rnLog[j]))
                /\ rnLog[i] # rnLog[j]
                /\ (StageOf(rnLog[i]) = StageOf(rnLog[j])
                      /\ rnLog[i].target # "-" /\ rnLog[j].target # "-") =>
                        PositionIn(TargetOrder, rnLog[i].target)
                            <= PositionIn(TargetOrder, rnLog[j].target)
        /\ BeforeStateUpdate =>
              /\ rnConflicts = ConflictCheckAll(rnMem, rnSrc)
              /\ Logged({"conflict_scan"}) # {}
              /\ Logged({"record_sync", "record_plugin"}) = {}
        /\ Logged({"record_sync", "record_plugin"}) # {} =>
              \A t \in DOMAIN rnRegistry : EventsOf("adapter_sync", t) # {}
        /\ (rnPc = "returned" /\ ~Blocked) =>
              /\ StagesLogged = {Stages[i] : i \in 1..Len(Stages)}
              /\ \A t \in DOMAIN rnRegistry :
                    /\ Cardinality(EventsOf("adapter_sync", t)) = 1
                    /\ Cardinality(EventsOf("record_sync", t)) = 1

\* A run that was neither a preview nor blocked has returned: its conflict
\* scan reported a source changed since the stored baseline, one adapter
\* raised in its sync, and the state of every target was recorded.
C29_Witness ==
    /\ rnPc = "returned"
    /\ ~rnCfg.dry_run
    /\ ~Blocked
    /\ AnyConflicts(rnConflicts)
    /\ \E t \in DOMAIN rnRegistry : rnRegistry[t] = "sync_raises"
    /\ \A t \in DOMAIN rnRegistry : EventsOf("record_sync", t) # {}
    /\ Logged({"backup_prune"}) # {}

(***************************************************************************)
(* The rules from the source files to the adapters' sync_rules.  A Python  *)
(* value is [type, value]: a str holds its characters, a list its items,   *)
(* a dict its keys and values.                                             *)
(***************************************************************************)
Str(chars) == [type |-> "str", value |-> chars]

List(items) == [type |-> "list", value |-> items]

Dict(fields) == [type |-> "dict", value |-> fields]

\* The files get_rules reads, in its order (source_reader.py 66-94)
RuleFiles == <<"~/.claude/CLAUDE.md", "CLAUDE.md", "CLAUDE.local.md",
               ".claude/CLAUDE.md">>

\* The f-string prefix of each section (lines 72, 83, 93)
SectionHeader(file) ==
    CASE file = "~/.claude/CLAUDE.md" ->
        <<"#", " ", "[", "U", "s", "e", "r", "-", "l", "e", "v", "e", "l",
          " ", "r", "u", "l", "e", "s", " ", "f", "r", "o", "m", " ", "~",
          "/", ".", "c", "l", "a", "u", "d", "e", "/", "C", "L", "A", "U",
          "D", "E", ".", "m", "d", "]", "\n", "\n">>
      [] file = "CLAUDE.md" ->
        <<"#", " ", "[", "P", "r", "o", "j", "e", "c", "t", " ", "r", "u",
          "l", "e", "s", " ", "f", "r", "o", "m", " ", "C", "L", "A", "U",
          "D", "E", ".", "m", "d", "]", "\n", "\n">>
      [] file = "CLAUDE.local.md" ->
        <<"#", " ", "[", "P", "r", "o", "j", "e", "c", "t", " ", "r", "u",
          "l", "e", "s", " ", "f", "r", "o", "m", " ", "C", "L", "A", "U",
          "D", "E", ".", "l", "o", "c", "a", "l", ".", "m", "d", "]", "\n",
          "\n">>
      [] file = ".claude/CLAUDE.md" ->
        <<"#", " ", "[", "P", "r", "o", "j", "e", "c", "t", " ", "r", "u",
          "l", "e", "s", " ", "f", "r", "o", "m", " ", ".", "c", "l", "a",
          "u", "d", "e", "/", "C", "L", "A", "U", "D", "E", ".", "m", "d",
          "]", "\n", "\n">>

\* "\n\n---\n\n" (line 96)
SectionSeparator ==
    <<"\n", "\n", "-", "-", "-", "\n", "\n">>

\* Lines 66 and 75: the scopes that read the file
ReadInScope(file, scope) ==
    IF file = "~/.claude/CLAUDE.md" THEN scope \in {"user", "all"}
    ELSE scope \in {"project", "all"}

\* The sections appended to the list: a file that exists and can be read
\* gives its header followed by its content.
RECURSIVE RuleSections(_, _, _)
RuleSections(tree, scope, n) ==
    IF n = 0 THEN << >>
    ELSE LET file == RuleFiles[n]
             before == RuleSections(tree, scope, n - 1)
         IN  IF ReadInScope(file, scope) /\ tree[file].exists /\ tree[file].readable
             THEN Append(before, SectionHeader(file) \o tree[file].text)
             ELSE before

\* separator.join(sections)
RECURSIVE JoinSections(_, _)
JoinSections(separator, sections) ==
    IF sections = << >> THEN << >>
    ELSE IF Len(sections) = 1 THEN sections[1]
    ELSE sections[1] \o separator \o JoinSections(separator, Tail(sections))

\* get_rules (56-96): a str
GetRules(tree, scope) ==
    Str(JoinSections(SectionSeparator, RuleSections(tree, scope, Len(RuleFiles))))

\* discover_all()['rules'] (line 552), copied by dict(source_data)
\* (orchestrator.py 91) and read by source_data.get('rules', [])
\* (adapters/base.py 163)
RulesPassed(tree, scope) == GetRules(tree, scope)

\* for rule in rules: the characters of a str, the items of a list
ItemsOf(rules) ==
    IF rules.type = "str"
    THEN [i \in 1..Len(rules.value) |-> Str(<<rules.value[i]>>)]
    ELSE rules.value

\* rule['content']: the exception it raises, "" for none
SubscriptRaises(rule, key) ==
    IF rule.type = "dict"
    THEN IF key \in DOMAIN rule.value THEN "" ELSE "KeyError"
    ELSE "TypeError"

\* sync_rules of the Codex, Gemini and OpenCode adapters (codex.py 76-110,
\* gemini.py 67-75, opencode.py 75-83): skipped for falsy rules, else the
\* contents are collected and the managed section is written.
SyncRules(rules) ==
    IF Len(rules.value) = 0
    THEN [raises |-> "", result |-> SyncResult(0, 1, 0, 0, << >>)]
    ELSE LET items == ItemsOf(rules)
             bad == {i \in 1..Len(items) : SubscriptRaises(items[i], "content") # ""}
         IN  IF bad # {}
             THEN [raises |-> SubscriptRaises(
                                 items[CHOOSE i \in bad : \A j \in bad : i <= j],
                                 "content"),
                   result |-> SyncResult(0, 0, 0, 0, << >>)]
             ELSE [raises |-> "", result |-> SyncResult(1, 0, 0, Len(items), << >>)]

\* The rules block of AdapterBase.sync_all (base.py 162-168)
SyncAllRules(rules) ==
    LET r == SyncRules(rules) IN
    IF r.raises # "" THEN SyncResult(0, 0, 1, 0, <<"rules: " \o r.raises>>)
    ELSE r.result

\* The argument the contract of sync_rules declares (base.py 56-60): one
\* record with 'path' and 'content' for each rule file read.
RECURSIVE RuleRecords(_, _, _)
RuleRecords(tree, scope, n) ==
    IF n = 0 THEN << >>
    ELSE LET file == RuleFiles[n]
             before == RuleRecords(tree, scope, n - 1)
         IN  IF ReadInScope(file, scope) /\ tree[file].exists /\ tree[file].readable
             THEN Append(before, Dict([path |-> Str(<<file>>),
                                       content |-> Str(tree[file].text)]))
             ELSE before

RuleTexts ==
    {<< >>,
    <<"B", "e", " ", "b", "r", "i", "e", "f", ".", "\n">>}

RuleEntries ==
    {[exists |-> FALSE, readable |-> FALSE, text |-> << >>],
     [exists |-> TRUE, readable |-> FALSE, text |-> << >>]}
        \cup {[exists |-> TRUE, readable |-> TRUE, text |-> t] : t \in RuleTexts}

RuleScopes == {"user", "project", "all"}

\* sync_all of a run that is no preview, as far as the rules go: the rules
\* are discovered and handed to the adapter of one target.
ApplySyncRules ==
    /\ ~fnOut.done
    /\ \E target \in Targets :
          LET rules == RulesPassed(fnIn.tree, fnIn.scope) IN
          fnOut' = [done |-> TRUE, target |-> target, rules |-> rules,
                    result |-> SyncAllRules(rules),
                    declared |-> SyncAllRules(List(RuleRecords(fnIn.tree, fnIn.scope,
                                                               Len(RuleFiles))))]
    /\ UNCHANGED fnIn

InitRules ==
    /\ stateFile = MissingFile
    /\ bakCount = 0
    /\ clock = 2
    /\ SaveParked
    /\ MgrParked
    /\ LockParked
    /\ BackupParked
    /\ AdapterParked
    /\ RunParked
    /\ HistParked
    /\ fnIn \in [tree : [{RuleFiles[i] : i \in 1..Len(RuleFiles)} -> RuleEntries],
                 scope : RuleScopes]
    /\ fnOut = [done |-> FALSE]

NextRules ==
    /\ ApplySyncRules
    /\ UNCHANGED <<stateVars, saveVars, mgrVars, lockVars, backupVars,
                   adapterVars, runVars, histVars>>

SpecRules == InitRules /\ [][NextRules]_vars

\* The value is a list of records that each have a content field.
DeclaredShape(rules) ==
    /\ rules.type = "list"
    /\ \A i \in 1..Len(rules.value) :
          /\ rules.value[i].type = "dict"
          /\ "content" \in DOMAIN rules.value[i].value

\* C30 as claimed: in a non-preview run whose source has non-empty rules,
\* the value the orchestrator passes to every adapter's sync_rules has the
\* shape the adapter contract declares (a list of records, each with a
\* content field), so that with an otherwise working adapter the rules
\* category is reported as synced and not as failed.
C30_RulesPassedInDeclaredShape ==
    (fnOut.done /\ Len(fnOut.rules.value) > 0) =>
        /\ DeclaredShape(fnOut.rules)
        /\ fnOut.result.synced > 0
        /\ fnOut.result.failed = 0

\* What the code does: the rules arrive as one str, and non-empty rules
\* are reported as one failure of the rules category; the same adapter
\* given the declared list reports them as synced.
C30_RulesPassedAsStr ==
    fnOut.done =>
        /\ fnOut.rules.type = "str"
        /\ Len(fnOut.rules.value) > 0 =>
              /\ fnOut.result = SyncResult(0, 0, 1, 0, <<"rules: TypeError">>)
              /\ fnOut.declared.synced = 1
              /\ fnOut.declared.failed = 0
        /\ Len(fnOut.rules.value) = 0 =>
              fnOut.result = SyncResult(0, 1, 0, 0, << >>)

\* The project's CLAUDE.md holds text, the run's rules are non-empty, and
\* the Codex adapter has reported the rules category as failed.
C30_Witness ==
    /\ fnOut.done
    /\ fnOut.target = "codex"
    /\ fnIn.tree["CLAUDE.md"].exists
    /\ fnIn.tree["CLAUDE.md"].readable
    /\ fnIn.tree["CLAUDE.md"].text # << >>
    /\ fnIn.scope = "all"
    /\ Len(fnOut.rules.value) > 0
    /\ fnOut.result.failed = 1
    /\ fnOut.result.synced = 0

\* Some server of the run has, in its own env map, a variable the secret
\* heuristic detects.
SomeServerHoldsSecret ==
    \E i \in 1..Len(rnServers) :
        \E j \in 1..Len(rnServers[i].config.env) :
            IsDetected(rnServers[i].config.env[j])

\* C31 as claimed: if any MCP server handed to the adapters has, in its own
\* env map, a variable that satisfies the secret heuristic, the run is
\* blocked unless the override flag is set, regardless of whether another
\* server defines a variable of the same name with a harmless value.
C31_AnyServerSecretBlocks ==
    (Scanned /\ ~rnCfg.allow_secrets /\ SomeServerHoldsSecret) =>
        /\ rnPc = "returned"
        /\ Blocked

\* What the code does: the run is blocked when the env maps merged by
\* dict.update, a later server's value replacing an earlier one's, hold a
\* detected variable.
C31_MergedSecretBlocks ==
    (Scanned /\ ~rnCfg.allow_secrets
        /\ \E j \in 1..Len(AllEnvVars(rnServers, Len(rnServers))) :
              IsDetected(AllEnvVars(rnServers, Len(rnServers))[j])) =>
        /\ rnPc = "returned"
        /\ Blocked

\* Server api sets API_KEY to a secret value, server dev sets API_KEY to a
\* short value; the scan detected nothing and, without the override flag,
\* the run went on to write the targets' files.
C31_Witness ==
    /\ ~rnCfg.allow_secrets
    /\ ~rnCfg.dry_run
    /\ Len(rnServers) = 2
    /\ Len(rnServers[1].config.env) = 1
    /\ IsDetected(rnServers[1].config.env[1])
    /\ rnDetections = << >>
    /\ rnPc = "returned"
    /\ ~Blocked
    /\ \A t \in DOMAIN rnTargetFiles : rnTargetFiles[t] > 0

(***************************************************************************)
(* Environment variables from the source to the targets' files             *)
(* (utils/env_translator.py, adapters/codex.py 329-349).  A source value   *)
(* is a literal text or one reference ${VAR} or ${VAR:-default}; a text is *)
(* a value of the secret scan.                                             *)
(***************************************************************************)
EmptyText == [len |-> 0, in_class |-> TRUE, nl |-> FALSE]

Literal(text) == [ref |-> << >>, has_default |-> FALSE, text |-> text]

Reference(var) == [ref |-> var, has_default |-> FALSE, text |-> EmptyText]

ReferenceWithDefault(var, default) ==
    [ref |-> var, has_default |-> TRUE, text |-> default]

\* The text of a source value as the secret scan reads it: a reference is
\* written with $, { and }, which are not of the class of
\* SECRET_VALUE_PATTERN.
SourceText(value) ==
    IF value.ref = << >> THEN value.text
    ELSE [len |-> Len(value.ref) + Len(<<"$", "{", "}">>)
                    + (IF value.has_default
                       THEN Len(<<":", "-">>) + value.text.len ELSE 0),
          in_class |-> FALSE, nl |-> FALSE]

\* _resolve (env_translator.py 58-81) of a value: os.environ's value, the
\* default, or the empty string
Resolve(value, environ) ==
    IF value.ref = << >> THEN value.text
    ELSE IF Has(environ, value.ref) THEN environ[value.ref]
    ELSE IF value.has_default THEN value.text
    ELSE EmptyText

\* env_map (lines 66-67): the variables resolved from os.environ, in the
\* order of their first resolution
RECURSIVE EnvMapOf(_, _, _)
EnvMapOf(values, environ, n) ==
    IF n = 0 THEN << >>
    ELSE LET before == EnvMapOf(values, environ, n - 1)
             value == values[n]
         IN  IF value.ref # << >> /\ Has(environ, value.ref)
             THEN DictSet(before, value.ref, environ[value.ref])
             ELSE before

\* translate_env_vars_for_codex (37-109): the env map of the translated
\* config, {**env_map, **existing_env}, and its args
TranslateEnvVarsForCodex(config, environ) ==
    LET values == config.args \o [j \in 1..Len(config.env) |-> config.env[j].value]
        env_map == EnvMapOf(values, environ, Len(values))
        existing_env == [j \in 1..Len(config.env) |->
                            EnvItem(config.env[j].name,
                                    Resolve(config.env[j].value, environ))]
    IN  [args |-> [j \in 1..Len(config.args) |-> Resolve(config.args[j], environ)],
         env |-> DictUpdate(env_map, existing_env, 1)]

\* The config as the Gemini and OpenCode adapters write it: the values as
\* the source has them
PreservedConfig(config) ==
    [args |-> [j \in 1..Len(config.args) |-> SourceText(config.args[j])],
     env |-> [j \in 1..Len(config.env) |->
                 EnvItem(config.env[j].name, SourceText(config.env[j].value))]]

\* The servers as the secret scan reads them (orchestrator.py 98-101)
ScanView(servers) ==
    [i \in 1..Len(servers) |->
        [name |-> servers[i].name, config |-> PreservedConfig(servers[i].config)]]

\* What sync_mcp_scoped of a target writes for the servers
WrittenConfigs(target, servers, environ) ==
    [i \in 1..Len(servers) |->
        IF target = "codex" THEN TranslateEnvVarsForCodex(servers[i].config, environ)
        ELSE PreservedConfig(servers[i].config)]

N_SERVICE_TOKEN == <<"S","E","R","V","I","C","E","_","T","O","K","E","N">>

EnvSourceValues ==
    {Literal(ShortValue), Literal(LongValue), Reference(N_API_KEY),
     ReferenceWithDefault(N_API_KEY, LongValue)}

EnvSourceServers ==
    {[name |-> "api", config |-> [args |-> args, env |-> env]] :
        args \in {<< >>, <<Reference(N_SERVICE_TOKEN)>>},
        env \in {<< >>}
                 \cup {<<EnvItem(name, value)>> :
                          name \in {N_API_KEY, N_PATH, N_TEST_API_KEY},
                          value \in EnvSourceValues}}

\* os.environ: each of the two variables unset or set
Environs ==
    {e \in UNION {[d -> {LongValue, ShortValue}] :
                     d \in SUBSET {N_API_KEY, N_SERVICE_TOKEN}} :
        Has(e, N_SERVICE_TOKEN) => e[N_SERVICE_TOKEN] = LongValue}

\* sync_all of a run that is no preview, as far as the MCP environment
\* goes: the secret scan, and unless it blocks, the adapters' writes.
ApplySyncMcpEnv ==
    /\ ~fnOut.done
    /\ LET detections == ScanMcpEnv(ScanView(fnIn.servers))
           blocked == ShouldBlock(detections, fnIn.allow_secrets)
       IN  fnOut' = [done |-> TRUE, blocked |-> blocked, detections |-> detections,
                     written |-> [t \in Targets |->
                                     IF blocked THEN << >>
                                     ELSE WrittenConfigs(t, fnIn.servers,
                                                         fnIn.environ)]]
    /\ UNCHANGED fnIn

InitEnv ==
    /\ stateFile = MissingFile
    /\ bakCount = 0
    /\ clock = 2
    /\ SaveParked
    /\ MgrParked
    /\ LockParked
    /\ BackupParked
    /\ AdapterParked
    /\ RunParked
    /\ HistParked
    /\ fnIn \in [servers : {<<s>> : s \in EnvSourceServers}
                              \cup {<<s, [s EXCEPT !.name = "dev",
                                                   !.config.args = << >>,
                                                   !.config.env = e]>> :
                                      s \in EnvSourceServers,
                                      e \in {<<EnvItem(N_API_KEY, Literal(ShortValue))>>}},
                 environ : Environs,
                 allow_secrets : BOOLEAN]
    /\ fnOut = [done |-> FALSE]

NextEnv ==
    /\ ApplySyncMcpEnv
    /\ UNCHANGED <<stateVars, saveVars, mgrVars, lockVars, backupVars,
                   adapterVars, runVars, histVars>>

SpecEnv == InitEnv /\ [][NextEnv]_vars

\* The env items written into the target's file whose name carries a
\* secret keyword and whose value satisfies the secret-value pattern
SecretsWritten(target) ==
    {item \in UNION {{fnOut.written[target][i].env[j] :
                          j \in 1..Len(fnOut.written[target][i].env)} :
                      i \in 1..Len(fnOut.written[target])} :
        /\ MatchedKeywords(item.name) # << >>
        /\ MatchesSecretValue(item.value)}

\* C32 as claimed: without the override flag, no run writes into any
\* target file, under an environment variable whose name carries a secret
\* keyword, a literal value that satisfies the secret-value pattern,
\* including values that the Codex adapter obtains by resolving ${VAR}
\* references from the process environment after the secret scan has
\* passed.
C32_NoSecretWritten ==
    (fnOut.done /\ ~fnIn.allow_secrets) =>
        \A t \in Targets : SecretsWritten(t) = {}

\* What the scan does guarantee: without the override flag, a variable
\* that the source sets to a literal value and that the heuristic detects
\* in the merged env maps blocks the run, and a blocked run writes nothing.
C32_DetectionBlocksWrites ==
    (fnOut.done /\ ~fnIn.allow_secrets /\ fnOut.detections # << >>) =>
        /\ fnOut.blocked
        /\ \A t \in Targets : fnOut.written[t] = << >>

\* The source sets API_KEY to ${API_KEY}, the process environment holds a
\* secret value for it, the scan detected nothing and, without the
\* override flag, the Codex file holds the secret value under API_KEY
\* while the Gemini file holds the reference.
C32_Witness ==
    /\ fnOut.done
    /\ ~fnIn.allow_secrets
    /\ Len(fnIn.servers) = 1
    /\ fnIn.servers[1].config.env = <<EnvItem(N_API_KEY, Reference(N_API_KEY))>>
    /\ fnIn.servers[1].config.args = << >>
    /\ Has(fnIn.environ, N_API_KEY)
    /\ fnIn.environ[N_API_KEY] = LongValue
    /\ fnOut.detections = << >>
    /\ ~fnOut.blocked
    /\ fnOut.written["codex"][1].env = <<EnvItem(N_API_KEY, LongValue)>>
    /\ SecretsWritten("codex") # {}
    /\ SecretsWritten("gemini") = {}

(***************************************************************************)
(* The entry points (commands/sync.py 124-193, hooks/post_tool_use.py      *)
(* 66-86) as processes: StateManager() for the debounce check, whose _load *)
(* reads state.json and then renames or migrates it, the lock, and inside  *)
(* the lock the orchestrator with its own StateManager and the state       *)
(* update.  fnIn holds, per process, what its _load has read; fnOut is the *)
(* history of the writes to state.json.                                    *)
(***************************************************************************)
NotRead == [file |-> MissingFile, saves |-> 0]

\* state.json when the entry points are invoked
EntryFiles == {MissingFile, PartialFile(V2Doc), CompleteFile(V1Doc),
               CompleteFile(V1NoTargetsDoc), CompleteFile(V2Doc)}

\* A write of process p to state.json joins the history.
Written(p, op) ==
    Append(fnOut.writes, [proc |-> p, op |-> op, locked |-> p \in lockHolders])

\* _load lines 86-89: exists() and read_json_safe
EntryRead(p) ==
    /\ lkPc[p] = "start"
    /\ lkAttempts[p] < MaxAttempts
    /\ lkAttempts' = [lkAttempts EXCEPT ![p] = @ + 1]
    /\ lkPc' = [lkPc EXCEPT ![p] = "loading"]
    /\ fnIn' = [fnIn EXCEPT ![p] = [file |-> stateFile, saves |-> fnOut.saves]]
    /\ UNCHANGED <<stateVars, fnOut, mgrVars, platform, lockHolders, lkSteps,
                   lkFoundHeld>>

\* _load lines 91-135 on what was read: an unreadable document is renamed
\* (the rename takes the file that is at the path now), a version-1
\* document is migrated and saved; then should_debounce.
EntryLoad(p) ==
    /\ lkPc[p] = "loading"
    /\ LET read == fnIn[p].file
           r == LoadResult(read, bakCount, FALSE, FALSE)
           renames == read.exists /\ DOMAIN ReadJsonSafe(read) = {}
           migrates == r.file # read /\ ~renames
           stale == fnOut.saves > fnIn[p].saves
       IN  /\ stateFile' = IF renames THEN MissingFile
                           ELSE IF migrates THEN r.file
                           ELSE stateFile
           /\ bakCount' = IF renames /\ stateFile.exists THEN bakCount + 1
                          ELSE bakCount
           /\ fnOut' = IF renames /\ stateFile.exists
                       THEN [fnOut EXCEPT !.writes = Written(p, "rename"),
                                          !.stale = @ \/ stale]
                       ELSE IF migrates
                       THEN [fnOut EXCEPT !.writes = Written(p, "migrate"),
                                          !.stale = @ \/ stale]
                       ELSE fnOut
           /\ lkPc' = [lkPc EXCEPT ![p] = IF ShouldDebounce(r.state, clock)
                                          THEN "left" ELSE "checked"]
    /\ UNCHANGED <<clock, fnIn, mgrVars, platform, lockHolders, lkSteps,
                   lkFoundHeld, lkAttempts>>

\* with sync_lock(LOCK_FILE_DEFAULT): entering
EntryLock(p) ==
    /\ lkPc[p] = "checked"
    /\ lkFoundHeld' = [lkFoundHeld EXCEPT ![p] = lockHolders # {}]
    /\ IF FlockGranted(lockHolders)
       THEN /\ lkPc' = [lkPc EXCEPT ![p] = "inside"]
            /\ lockHolders' = lockHolders \cup {p}
       ELSE /\ lkPc' = [lkPc EXCEPT ![p] = "refused"]
            /\ UNCHANGED lockHolders
    /\ UNCHANGED <<stateVars, pureVars, mgrVars, platform, lkSteps, lkAttempts>>

\* SyncOrchestrator(...) inside the block: its StateManager loads
EntryConstruct(p) ==
    /\ lkPc[p] = "inside"
    /\ LET r == LoadResult(stateFile, bakCount, FALSE, FALSE) IN
       /\ stateFile' = r.file
       /\ bakCount' = r.baks
       /\ mgr' = [mgr EXCEPT ![p] = [loaded |-> TRUE, state |-> r.state]]
       /\ fnOut' = IF r.file # stateFile
                   THEN [fnOut EXCEPT !.writes =
                            Written(p, IF r.file.exists THEN "migrate" ELSE "rename")]
                   ELSE fnOut
    /\ lkPc' = [lkPc EXCEPT ![p] = "constructed"]
    /\ UNCHANGED <<clock, fnIn, lastLoad, v1Seen, opCount, platform, lockHolders,
                   lkSteps, lkFoundHeld, lkAttempts>>

\* sync_all up to its state update: record_sync saves the run's state
EntryRecord(p) ==
    /\ lkPc[p] = "constructed"
    /\ LET new == RecordSyncState(mgr[p].state, clock, "codex",
                                  ("CLAUDE.md" :> HashOf(1)), 1, 0, 0, NoAccount)
       IN  /\ mgr' = [mgr EXCEPT ![p].state = new]
           /\ stateFile' = CompleteFile(new)
           /\ fnOut' = [fnOut EXCEPT !.writes = Written(p, "record"),
                                     !.saves = @ + 1,
                                     !.last = new]
    /\ lkPc' = [lkPc EXCEPT ![p] = "recorded"]
    /\ UNCHANGED <<bakCount, clock, fnIn, lastLoad, v1Seen, opCount, platform,
                   lockHolders, lkSteps, lkFoundHeld, lkAttempts>>

\* Leaving the block: flock(fd, LOCK_UN); os.close(fd)
EntryExit(p) ==
    /\ lkPc[p] = "recorded"
    /\ lkPc' = [lkPc EXCEPT ![p] = "left"]
    /\ lockHolders' = lockHolders \ {p}
    /\ UNCHANGED <<stateVars, pureVars, mgrVars, platform, lkSteps, lkFoundHeld,
                   lkAttempts>>

\* The next /sync command or hook event of the process
EntryAgain(p) ==
    /\ LockAgain(p)
    /\ UNCHANGED <<stateVars, pureVars, mgrVars>>

InitEntry ==
    /\ stateFile \in EntryFiles
    /\ bakCount = 0
    /\ clock = 2
    /\ SaveParked
    /\ MgrParked
    /\ LockParked
    /\ BackupParked
    /\ AdapterParked
    /\ RunParked
    /\ HistParked
    /\ fnIn = [p \in Procs |-> NotRead]
    /\ fnOut = [writes |-> << >>, saves |-> 0, last |-> FreshState, stale |-> FALSE]

NextEntry ==
    \/ /\ \E p \in Procs : EntryRead(p)
       /\ UNCHANGED <<saveVars, backupVars, adapterVars, runVars, histVars>>
    \/ /\ \E p \in Procs : EntryLoad(p)
       /\ UNCHANGED <<saveVars, backupVars, adapterVars, runVars, histVars>>
    \/ /\ \E p \in Procs : EntryLock(p)
       /\ UNCHANGED <<saveVars, backupVars, adapterVars, runVars, histVars>>
    \/ /\ \E p \in Procs : EntryConstruct(p)
       /\ UNCHANGED <<saveVars, backupVars, adapterVars, runVars, histVars>>
    \/ /\ \E p \in Procs : EntryRecord(p)
       /\ UNCHANGED <<saveVars, backupVars, adapterVars, runVars, histVars>>
    \/ /\ \E p \in Procs : EntryExit(p)
       /\ UNCHANGED <<saveVars, backupVars, adapterVars, runVars, histVars>>
    \/ /\ \E p \in Procs : EntryAgain(p)
       /\ UNCHANGED <<saveVars, backupVars, adapterVars, runVars, histVars>>
    \/ /\ Tick
       /\ UNCHANGED <<saveVars, mgrVars, backupVars, adapterVars, runVars,
                      histVars>>

SpecEntry == InitEntry /\ [][NextEntry]_vars

\* C33 as claimed: every write to the state file made by the entry points,
\* including the schema migration performed when a StateManager is
\* constructed and the renaming of an unreadable state file, happens while
\* that process holds the sync lock, so that under any interleaving no
\* run's recorded state is overwritten by a copy loaded before that run
\* saved.
C33_StateWritesUnderLock ==
    /\ \A i \in 1..Len(fnOut.writes) : fnOut.writes[i].locked
    /\ ~fnOut.stale
    /\ fnOut.saves > 0 => stateFile = CompleteFile(fnOut.last)

\* The writes of the runs themselves are made under the lock.
C33_RunWritesUnderLock ==
    \A i \in 1..Len(fnOut.writes) :
        fnOut.writes[i].op = "record" => fnOut.writes[i].locked

\* One process's run has recorded its state; the other, whose _load had
\* read the version-1 document before, then saved its migrated copy
\* without holding the lock: state.json no longer holds the run's record.
C33_Witness ==
    /\ fnOut.saves = 1
    /\ fnOut.stale
    /\ Len(fnOut.writes) > 0
    /\ fnOut.writes[Len(fnOut.writes)].op = "migrate"
    /\ ~fnOut.writes[Len(fnOut.writes)].locked
    /\ stateFile # CompleteFile(fnOut.last)
    /\ stateFile.exists
    /\ Get(ReadJsonSafe(stateFile), "last_sync", None) # fnOut.last.last_sync

\* The process has entered the guarded block and made no stage yet.
RunStarts(p) == lkPc[p] = "inside" /\ lkSteps[p] = 0

\* C34 as claimed: under any interleaving of /sync command and hook
\* invocations, no pipeline run starts less than the debounce window
\* (3 seconds) after the last_sync recorded by a previous run: a burst of
\* triggers arriving together results in a single run.
C34_NoRunInsideWindow ==
    \A p \in Procs :
        RunStarts(p) => ~ShouldDebounce(ReadJsonSafe(stateFile), clock)

\* What the check does guarantee: a process starts a run only after its
\* own check, made on the state it loaded before taking the lock, returned
\* False.
C34_RunAfterOwnCheck ==
    \A p \in Procs :
        lkPc[p] = "inside" =>
            /\ fnOut[p].done
            /\ ~fnOut[p].result
            /\ ~ShouldDebounce([last_sync |-> fnIn[p].last_sync], fnIn[p].now)

\* Both processes made their check before either had run; one has run and
\* recorded last_sync, and the other starts its run in the same second.
C34_Witness ==
    \E p \in Procs :
        /\ RunStarts(p)
        /\ fnIn[p].last_sync = None
        /\ Get(ReadJsonSafe(stateFile), "last_sync", None) = clock
        /\ \E q \in Procs \ {p} : lkPc[q] = "left" /\ lkSteps[q] = PipelineSteps

(***************************************************************************)
(* The protocol server with the end of its input: run() leaves its loop at *)
(* EOF (server.py 175-176) and the process ends; the worker is a daemon    *)
(* thread (line 47), which ends with the process wherever it is.           *)
(***************************************************************************)
\* read_message() returns None: break
MainEof ==
    /\ srvMain.pc = "read"
    /\ srvMain' = [pc |-> "eof", req |-> 0]
    /\ UNCHANGED <<srvQueue, srvFlag, srvWorker, srvLog>>

\* run() has returned and the interpreter exits; nothing joins the queue
\* or the worker (lines 196-205).
ServerExit ==
    /\ srvMain.pc = "eof"
    /\ srvMain' = [pc |-> "exited", req |-> 0]
    /\ UNCHANGED <<srvQueue, srvFlag, srvWorker, srvLog>>

\* A step of the worker thread, which runs while the process lives
WorkerStep ==
    /\ srvMain.pc # "exited"
    /\ \/ WorkerGet
       \/ WorkerSetFlag
       \/ WorkerLock
       \/ WorkerHandlerEnds
       \/ WorkerFinally
       \/ WorkerRespond
    /\ UNCHANGED <<stateVars, saveVars, mgrVars, lockVars, backupVars,
                   adapterVars, runVars, pureVars, recVars, twiceVars>>

NextServerEof ==
    \/ /\ \E r \in Requests, tool \in Tools, valid \in BOOLEAN :
             MainHandle(r, tool, valid)
       /\ UNCHANGED <<stateVars, saveVars, mgrVars, lockVars, backupVars,
                      adapterVars, runVars, pureVars, recVars, twiceVars>>
    \/ /\ MainPut
       /\ UNCHANGED <<stateVars, saveVars, mgrVars, lockVars, backupVars,
                      adapterVars, runVars, pureVars, recVars, twiceVars>>
    \/ /\ MainEof
       /\ UNCHANGED <<stateVars, saveVars, mgrVars, lockVars, backupVars,
                      adapterVars, runVars, pureVars, recVars, twiceVars>>
    \/ /\ ServerExit
       /\ UNCHANGED <<stateVars, saveVars, mgrVars, lockVars, backupVars,
                      adapterVars, runVars, pureVars, recVars, twiceVars>>
    \/ /\ srvMain.pc # "exited" /\ WorkerGet
       /\ UNCHANGED <<stateVars, saveVars, mgrVars, lockVars, backupVars,
                      adapterVars, runVars, pureVars, recVars, twiceVars>>
    \/ /\ srvMain.pc # "exited" /\ WorkerSetFlag
       /\ UNCHANGED <<stateVars, saveVars, mgrVars, lockVars, backupVars,
                      adapterVars, runVars, pureVars, recVars, twiceVars>>
    \/ /\ srvMain.pc # "exited" /\ WorkerLock
       /\ UNCHANGED <<stateVars, saveVars, mgrVars, lockVars, backupVars,
                      adapterVars, runVars, pureVars, recVars, twiceVars>>
    \/ /\ srvMain.pc # "exited" /\ WorkerHandlerEnds
       /\ UNCHANGED <<stateVars, saveVars, mgrVars, lockVars, backupVars,
                      adapterVars, runVars, pureVars, recVars, twiceVars>>
    \/ /\ srvMain.pc # "exited" /\ WorkerFinally
       /\ UNCHANGED <<stateVars, saveVars, mgrVars, lockVars, backupVars,
                      adapterVars, runVars, pureVars, recVars, twiceVars>>
    \/ /\ srvMain.pc # "exited" /\ WorkerRespond
       /\ UNCHANGED <<stateVars, saveVars, mgrVars, lockVars, backupVars,
                      adapterVars, runVars, pureVars, recVars, twiceVars>>

\* The worker thread is scheduled as long as the process lives.
SpecServerEof == InitServer /\ [][NextServerEof]_vars /\ WF_vars(WorkerStep)

\* The request was put in the queue.
Accepted(r) == srvLog[r].outcome = "queued"

\* The main thread answered the request itself.
Rejected(r) == srvLog[r].outcome \in {"busy", "invalid", "error"}

\* C35 as claimed: every sync request accepted into the server's queue is
\* eventually executed to completion and answered with one response
\* carrying its request id, even if the client closes the input stream
\* while the request is queued or running; a request that is rejected
\* (busy, invalid arguments, unknown tool) also gets its response and is
\* never executed.
C35_AcceptedIsExecutedAndAnswered ==
    /\ \A r \in Requests :
          Accepted(r) ~> (srvLog[r].executed /\ srvLog[r].answered)
    /\ [](\A r \in Requests :
             Rejected(r) => (srvLog[r].answered /\ ~srvLog[r].executed))

\* The half about rejected requests, and what holds of accepted ones: an
\* accepted request is answered unless the process ends first.
C35_RejectedAnsweredNeverExecuted ==
    /\ \A r \in Requests :
          Accepted(r) ~> (srvLog[r].answered \/ srvMain.pc = "exited")
    /\ [](\A r \in Requests :
             Rejected(r) => (srvLog[r].answered /\ ~srvLog[r].executed))

\* The client closed its input while the handler of the first request was
\* running: the process has ended, the request was never answered, and a
\* second accepted request was never executed.
C35_Witness ==
    /\ srvMain.pc = "exited"
    /\ Accepted(1)
    /\ srvLog[1].executed
    /\ ~srvLog[1].answered
    /\ srvWorker = [pc |-> "handler", req |-> 1]
    /\ Accepted(2)
    /\ ~srvLog[2].executed
    /\ ~srvLog[2].answered

\* C36: the sync lock is released on every exit from the guarded block
\* (normal return, blocked run, or an exception raised by the pipeline),
\* so that once a holder has left the block a later acquisition attempt
\* succeeds; no run can leave the lock held while its process continues.
\* The lock is held only by processes inside the block, and a process is
\* refused only when it found the lock held, that is, another process
\* inside the block.
C36_LockReleasedOnEveryExit ==
    /\ lockHolders \subseteq Inside
    /\ \A p \in LockProcs :
          /\ lkPc[p] \in {"left", "refused", "start"} => p \notin lockHolders
          /\ lkPc[p] = "refused" => lkFoundHeld[p]
          /\ (lkPc[p] = "inside" /\ platform # "win32") =>
                (~lkFoundHeld[p] /\ lockHolders = {p})

\* One process left the block before the pipeline had made all its steps
\* (a blocked run or an exception), another was refused meanwhile and, at
\* its next attempt, has acquired the lock.
C36_Witness ==
    /\ platform = "posix"
    /\ lkPc["p1"] = "left"
    /\ lkSteps["p1"] < PipelineSteps
    /\ lkPc["p2"] = "inside"
    /\ lkAttempts["p2"] = MaxAttempts
    /\ lockHolders = {"p2"}
    /\ lkPc["p3"] = "left"
    /\ lkSteps["p3"] = PipelineSteps

(***************************************************************************)
(* SpecRunAgain: a run of the orchestrator on the state.json that an       *)
(* earlier run left, which had discovered the server ext of plugin plug    *)
(* and recorded it in the flat section and in the section of account work. *)
(***************************************************************************)
PreviousPlugins ==
    ("plug" :> [version |-> "1.0", mcp_count |-> 1,
                mcp_servers |-> <<"ext">>, last_sync |-> 1])

PluginsDoc ==
    RecordPluginState(RecordPluginState(V2Doc, PreviousPlugins, NoAccount),
                      PreviousPlugins, "work")

InitRunAgain ==
    /\ stateFile = CompleteFile(PluginsDoc)
    /\ bakCount = 0
    /\ clock = 2
    /\ SaveParked
    /\ MgrParked
    /\ LockParked
    /\ BackupParked
    /\ AdapterParked
    /\ rnCfg \in [dry_run : BOOLEAN, allow_secrets : BOOLEAN,
                  account : {NoAccount, "work"}]
    /\ rnRegistry \in Registries
    /\ rnServers \in ServerConfigs
    /\ rnSrc \in {f \in [Paths -> {0, 1, 2}] :
                     f[".mcp.json"] = IF rnServers = << >> THEN 0 ELSE 1}
    /\ rnPc = "new"
    /\ rnMem = FreshState
    /\ rnDetections = << >>
    /\ rnConflicts = EmptyMap
    /\ rnBackupMgr = FALSE
    /\ rnResults = EmptyMap
    /\ rnIdx = 1
    /\ rnTargetFiles = [t \in Targets |-> 0]
    /\ rnBackups \in {NoBackups, [NoBackups EXCEPT !["codex"] = KeepCount + 1]}
    /\ rnLog = << >>
    /\ rnAtNew = Snapshot
    /\ rnAtCall = Snapshot
    /\ ExtraParked

SpecRunAgain == InitRunAgain /\ [][NextRun]_vars

\* sync_all has returned from a run that was not a preview and whose state
\* update was made.
CompletedRun ==
    /\ rnPc = "returned"
    /\ ~rnCfg.dry_run
    /\ Logged({"record_sync"}) # {}

\* The plugin metadata the run discovered
DiscoveredPlugins == ExtractPluginMetadata(rnServers, clock)

\* The stored section equals the discovered metadata (the time of the
\* record apart) in the given state document.
PluginsRecordedIn(state) ==
    LET stored == StoredPlugins(state, rnCfg.account) IN
    /\ DOMAIN stored = DOMAIN DiscoveredPlugins
    /\ \A n \in DOMAIN stored :
          /\ stored[n].version = DiscoveredPlugins[n].version
          /\ stored[n].mcp_count = DiscoveredPlugins[n].mcp_count
          /\ stored[n].mcp_servers = DiscoveredPlugins[n].mcp_servers
    /\ DOMAIN DetectPluginDrift(state, DiscoveredPlugins, rnCfg.account) = {}

\* C37: after a completed non-preview run, the stored plugins section (for
\* the run's account, or the flat section) equals the plugin metadata
\* discovered in that run, so that detect_plugin_drift against that same
\* discovery is empty, also when the run discovered no plugin-sourced
\* server at all.
C37_StoredPluginsAreDiscovered ==
    CompletedRun =>
        (PluginsRecordedIn(rnMem) /\ PluginsRecordedIn(ReadJsonSafe(stateFile)))

\* What the code keeps: the section is replaced by the discovery of a run
\* that discovered at least one plugin-sourced server.
C37_NonEmptyDiscoveryRecorded ==
    (CompletedRun /\ DOMAIN DiscoveredPlugins # {}) =>
        (PluginsRecordedIn(rnMem) /\ PluginsRecordedIn(ReadJsonSafe(stateFile)))

\* A completed run that discovered no plugin-sourced server has left the
\* record of plugin plug in the section, and the drift reports it removed.
C37_Witness ==
    /\ CompletedRun
    /\ DOMAIN DiscoveredPlugins = {}
    /\ rnServers # << >>
    /\ DOMAIN StoredPlugins(ReadJsonSafe(stateFile), rnCfg.account) = {"plug"}
    /\ DetectPluginDrift(ReadJsonSafe(stateFile), DiscoveredPlugins,
                         rnCfg.account) = ("plug" :> <<"removed">>)

(***************************************************************************)
(* SpecAccountStatus: the runs of SpecTwice, and get_status called when no *)
(* run is in progress.                                                     *)
(***************************************************************************)
\* get_status (orchestrator.py 403-430) of an orchestrator constructed on
\* the given state, for the current source files
GetStatus(state, files, account) ==
    LET current_hashes == SourceHashes(files)
        targets == Get(state, "targets", EmptyMap)
    IN  Put(state, "targets",
            [target \in DOMAIN targets |->
                Put(targets[target], "drift",
                    DetectDrift(state, target, current_hashes, account))])

\* SyncOrchestrator(project_dir, account=...).get_status()
CallGetStatus ==
    /\ rnPc = "returned"
    /\ fnOut' = [done |-> TRUE, account |-> rnCfg.account, files |-> rnSrc,
                 state |-> StateOnDisk,
                 status |-> GetStatus(StateOnDisk, rnSrc, rnCfg.account)]
    /\ fnOut' # fnOut
    /\ UNCHANGED fnIn

NextAccountStatus ==
    \/ NextTwice
    \/ /\ CallGetStatus
       /\ UNCHANGED <<stateVars, saveVars, mgrVars, lockVars, backupVars,
                      adapterVars, runVars, histVars>>

SpecAccountStatus == InitTwice /\ [][NextAccountStatus]_vars

\* The conflicts of a target against the record the account's runs made
AccountConflicts(state, files, target, account) ==
    ConflictCheck([targets |-> AccountTargets(state, account)], files, target)

\* C38: for a run made with an account, the conflict scan and the drift
\* reported by get_status compare against the baseline that the previous
\* run of that same account recorded, not against the flat targets section
\* or another account's records.
C38_AccountBaseline ==
    /\ (rnPc = "backup" /\ rnCfg.account # NoAccount) =>
          \A t \in Targets :
              rnConflicts[t] = AccountConflicts(rnMem, rnSrc, t, rnCfg.account)
    /\ (fnOut.done /\ fnOut.account # NoAccount) =>
          \A t \in DOMAIN AccountTargets(fnOut.state, fnOut.account) :
              /\ Has(fnOut.status.targets, t)
              /\ fnOut.status.targets[t].drift =
                    DetectDrift(fnOut.state, t, SourceHashes(fnOut.files),
                                fnOut.account)

\* What the code keeps: the conflict scan compares against the flat targets
\* section whatever the account, and get_status reports a drift for the
\* targets of the flat section only, each against the account's record.
C38_FlatBaseline ==
    /\ rnPc = "backup" =>
          \A t \in Targets :
              rnConflicts[t] = AccountConflicts(("accounts" :> ("-" :> rnMem)),
                                                rnSrc, t, "-")
    /\ fnOut.done =>
          /\ DOMAIN fnOut.status.targets = DOMAIN Get(fnOut.state, "targets", EmptyMap)
          /\ \A t \in DOMAIN fnOut.status.targets :
                fnOut.status.targets[t].drift =
                    DetectDrift(fnOut.state, t, SourceHashes(fnOut.files),
                                fnOut.account)

\* The second run of account work, after an edit of a source file: the
\* account's record of codex differs from the files, the flat section has
\* no record of codex, and the scan has reported nothing for it.
C38_Witness ==
    /\ rnPc = "backup"
    /\ rnCfg.account = "work"
    /\ rnPrev.runs = 2
    /\ rnPrev.changed
    /\ TargetStateOf(rnMem, "codex", "work").found
    /\ ~TargetStateOf(rnMem, "codex", NoAccount).found
    /\ AccountConflicts(rnMem, rnSrc, "codex", "work") # << >>
    /\ rnConflicts["codex"] = << >>

(***************************************************************************)
(* SpecMcpFiles: the MCP sections of the targets' configuration files over *)
(* successive runs, with edits of the source in between.  fnIn is the      *)
(* scope-tagged map of the discovered servers; fnOut holds the files.      *)
(***************************************************************************)
\* The configuration files the three adapters write MCP servers to
McpFiles == {"codex.user", "codex.project", "gemini.user", "gemini.project",
             "opencode.project"}

McpFileOf(target, scope) ==
    IF target = "codex" THEN (IF scope = "project" THEN "codex.project" ELSE "codex.user")
    ELSE IF target = "gemini"
    THEN (IF scope = "project" THEN "gemini.project" ELSE "gemini.user")
    ELSE "opencode.project"

\* detect_transport_type (env_translator.py 128-143)
DetectTransportType(config) ==
    IF "command" \in DOMAIN config THEN "stdio"
    ELSE IF "url" \in DOMAIN config
    THEN (IF config.url = "https://host/sse" THEN "sse" ELSE "http")
    ELSE "unknown"

\* TRANSPORT_SUPPORT (env_translator.py 30-34)
TRANSPORT_SUPPORT ==
    [t \in Targets |-> IF t = "gemini" THEN {"stdio", "http", "sse"}
                       ELSE {"stdio", "http"}]

\* check_transport_support (env_translator.py 146-174): the boolean
CheckTransportSupport(config, target) ==
    DetectTransportType(config) \in TRANSPORT_SUPPORT[target]

\* The scope a server is routed by (codex.py 312-318, gemini.py 350-355):
\* plugin servers and local ones go to the user scope.
RoutedScope(server_data) ==
    IF server_data.metadata.source = "plugin" \/ server_data.metadata.scope = "local"
    THEN "user"
    ELSE server_data.metadata.scope

\* The servers of the scoped map that sync_mcp_scoped of the target hands
\* to the write of the given file
RoutedTo(target, file, mcp_servers_scoped) ==
    {n \in DOMAIN mcp_servers_scoped :
        /\ CheckTransportSupport(mcp_servers_scoped[n].config, target)
        /\ McpFileOf(target, RoutedScope(mcp_servers_scoped[n])) = file}

\* The entry written for a server: Gemini's mcpServers entry (gemini.py
\* 402-430), Codex's table, OpenCode's typed entry (opencode.py 281-306)
McpEntry(target, config) ==
    IF target = "opencode"
    THEN (IF "command" \in DOMAIN config
          THEN [type |-> "local", command |-> <<config.command>>, enabled |-> TRUE]
          ELSE [type |-> "remote", url |-> config.url, enabled |-> TRUE])
    ELSE IF target = "gemini" /\ "url" \in DOMAIN config
    THEN (IF DetectTransportType(config) = "sse" THEN [url |-> config.url]
          ELSE [httpUrl |-> config.url])
    ELSE config

\* _write_mcp_to_settings (gemini.py 379-446), _write_mcp_to_path (codex.py
\* 353-406) and OpenCode's sync_mcp (opencode.py 249-330): the servers
\* section read from the file, updated with the servers of this run.
WriteMcp(existing, target, mcp_servers_scoped, names) ==
    [n \in DOMAIN existing \cup names |->
        IF n \in names THEN McpEntry(target, mcp_servers_scoped[n].config)
        ELSE existing[n]]

\* sync_mcp_scoped of the target's adapter: nothing is written for an
\* empty map, and a file is written only when a server is routed to it.
SyncMcpScoped(files, target, mcp_servers_scoped) ==
    [f \in McpFiles |->
        LET names == RoutedTo(target, f, mcp_servers_scoped) IN
        IF DOMAIN mcp_servers_scoped = {} \/ names = {} THEN files[f]
        ELSE WriteMcp(files[f], target, mcp_servers_scoped, names)]

McpTargetOf(file) ==
    IF file \in {"codex.user", "codex.project"} THEN "codex"
    ELSE IF file \in {"gemini.user", "gemini.project"} THEN "gemini"
    ELSE "opencode"

\* The servers the source may declare
McpNames == {"fs", "api"}

McpConfigs == {[command |-> "npx"], [command |-> "node"],
               [url |-> "https://host/sse"], [url |-> "https://host/mcp"]}

McpServerData ==
    {[config |-> c, metadata |-> [scope |-> s, source |-> "file"]] :
        c \in McpConfigs, s \in {"user", "project", "local"}}
        \cup {[config |-> [command |-> "npx"],
               metadata |-> [scope |-> "user", source |-> "plugin"]]}

McpSources == UNION {[names -> McpServerData] : names \in SUBSET McpNames}

\* An edit of the source between runs: a server is added, changed or removed.
McpSourceEdit ==
    /\ fnOut.runs > 0
    /\ ~fnOut.edited
    /\ \E n \in McpNames :
          \/ /\ n \in DOMAIN fnIn
             /\ fnIn' = [m \in DOMAIN fnIn \ {n} |-> fnIn[m]]
          \/ \E d \in McpServerData :
                /\ ~(n \in DOMAIN fnIn /\ fnIn[n] = d)
                /\ fnIn' = [m \in DOMAIN fnIn \cup {n} |->
                               IF m = n THEN d ELSE fnIn[m]]
    /\ fnOut' = [fnOut EXCEPT !.edited = TRUE]

\* A successful non-preview run: sync_mcp_scoped of the three adapters.
McpRun ==
    /\ fnOut.runs < MaxRuns
    /\ fnOut.runs > 0 => fnOut.edited
    /\ LET after == [f \in McpFiles |->
                        SyncMcpScoped(fnOut.files, McpTargetOf(f), fnIn)[f]]
       IN  fnOut' = [runs |-> fnOut.runs + 1, edited |-> FALSE, files |-> after,
                     before |-> fnOut.files, source |-> fnIn,
                     routed |-> [f \in McpFiles |->
                                    RoutedTo(McpTargetOf(f), f, fnIn)]]
    /\ UNCHANGED fnIn

InitMcpFiles ==
    /\ stateFile = MissingFile
    /\ bakCount = 0
    /\ clock = 2
    /\ SaveParked
    /\ MgrParked
    /\ LockParked
    /\ BackupParked
    /\ AdapterParked
    /\ RunParked
    /\ HistParked
    /\ fnIn \in McpSources
    /\ fnOut = [runs |-> 0, edited |-> FALSE, files |-> [f \in McpFiles |-> EmptyMap],
                before |-> [f \in McpFiles |-> EmptyMap], source |-> EmptyMap,
                routed |-> [f \in McpFiles |-> {}]]

NextMcpFiles ==
    \/ /\ McpRun
       /\ UNCHANGED <<stateVars, saveVars, mgrVars, lockVars, backupVars,
                      adapterVars, runVars, histVars>>
    \/ /\ McpSourceEdit
       /\ UNCHANGED <<stateVars, saveVars, mgrVars, lockVars, backupVars,
                      adapterVars, runVars, histVars>>

SpecMcpFiles == InitMcpFiles /\ [][NextMcpFiles]_vars

\* C39: after any sequence of source edits and successful non-preview
\* runs, the set of MCP servers present in a target's configuration file
\* equals the set of source servers routed to that file by the latest run:
\* a server removed from the source since an earlier run is no longer
\* present in the target.
C39_FileHoldsRoutedServers ==
    fnOut.runs > 0 =>
        \A f \in McpFiles : DOMAIN fnOut.files[f] = fnOut.routed[f]

\* What the code keeps: after a run a file holds every server the run
\* routed to it, with the entry of that run, and every server it held
\* before the run.
C39_FileHoldsRoutedAndEarlier ==
    fnOut.runs > 0 =>
        \A f \in McpFiles :
            /\ DOMAIN fnOut.files[f] = fnOut.routed[f] \cup DOMAIN fnOut.before[f]
            /\ \A n \in fnOut.routed[f] :
                  fnOut.files[f][n] = McpEntry(McpTargetOf(f), fnOut.source[n].config)
            /\ \A n \in DOMAIN fnOut.before[f] \ fnOut.routed[f] :
                  fnOut.files[f][n] = fnOut.before[f][n]

\* The second run has returned; server fs, which the first run wrote to
\* Codex's user file, was removed from the source before it and is still
\* in the file, beside api.
C39_Witness ==
    /\ fnOut.runs = 2
    /\ DOMAIN fnOut.source = {"api"}
    /\ fnOut.routed["codex.user"] = {"api"}
    /\ "fs" \in DOMAIN fnOut.before["codex.user"]
    /\ DOMAIN fnOut.files["codex.user"] = {"fs", "api"}

\* The contents backed up for original o by the registered entries
BackedUp(o) ==
    {bkStore[bkEntries[i][1]] : i \in {j \in 1..Len(bkEntries) : bkEntries[j][2] = o}}

\* C40: rollback never raises and processes every entry even when
\* restoring an earlier one failed; for every entry, after rollback the
\* original path holds either its backed-up content or, when that entry
\* cannot be restored, the content it held before rollback started:
\* rollback never removes an original that it does not then restore.
C40_RollbackKeepsOrRestores ==
    bkPc = "propagated" =>
        /\ Len(bkLog) = Len(bkEntries)
        /\ \A o \in Registered : bkFiles[o] \in BackedUp(o) \cup {bkAtExit[o]}

\* What the code keeps: rollback returns after one iteration for every
\* entry, and leaves an original with a backed-up content or without any;
\* the files that were not registered are as they were.
C40_RollbackProcessesEveryEntry ==
    bkPc = "propagated" =>
        /\ Len(bkLog) = Len(bkEntries)
        /\ \A o \in Registered : bkFiles[o] \in BackedUp(o) \cup {0}
        /\ \A o \in Originals \ Registered : bkFiles[o] = bkAtExit[o]

\* rollback has returned; the restore of GEMINI.md failed, the file the
\* sync had written is gone, and AGENTS.md, processed after it, has its
\* backed-up content.
C40_Witness ==
    /\ bkPc = "propagated"
    /\ Len(bkLog) = 2
    /\ bkLog[1].entry[2] = "GEMINI.md"
    /\ ~bkLog[1].restored
    /\ bkLog[2].entry[2] = "AGENTS.md"
    /\ bkLog[2].restored
    /\ bkAtExit["GEMINI.md"] # 0
    /\ bkFiles["GEMINI.md"] = 0
    /\ bkFiles["AGENTS.md"] \in BackedUp("AGENTS.md")

====
